---- MODULE Spec2Model ----
(***************************************************************************)
(* A model of sleap's video layer (sleap/io/video.py), form builder        *)
(* (sleap/gui/formbuilder.py) and augmenter (sleap/nn/augmentation.py).    *)
(*                                                                         *)
(* A Python string is a sequence of atoms; an atom is a piece of text that *)
(* the code never looks inside except through the tabulated predicates     *)
(* below (LowerAtom, AtomEndsWith).    "/" is the path separator and        *)
(* "metadata.yaml" is the 13-character literal of the source.              *)
(***************************************************************************)
EXTENDS Integers, Sequences, FiniteSets, TLC

VARIABLES
    files,      \* the regular files of the filesystem: absolute paths, each a sequence of names
    dirs,       \* the directories of the filesystem, same representation
    call,       \* the last call made on the video module: [op, arg, opt, res]
    video,      \* the Video object at hand: its backend, with the data of its file
    made,       \* how that Video was made: by a constructor, or by to_imgstore from a source
    frame,      \* the last get_frame call on the Video: [idx, res]
    step,       \* the last method call on the Video's backend: [op, before, calls]
    stacked,    \* the last video[idxs]: [idxs, res]
    media_class, \* the attributes of the class MediaVideo itself
    items,      \* the items a form was built from
    form,       \* the widgets of the form layout, in the order of itemAt
    form_data,  \* the dict the last get_form_data call returned
    edited,     \* whether the user has changed a widget of the form
    dialog,     \* the last click on a button of the form: [button, filter, chosen, emitted, before, open]
    aug,        \* the outcome of constructing the Augmenter: the object, or the exception
    batched_by, \* the last call that set the Augmenter's batches
    drawn,      \* the last augmenter[batch_idx]: [batch_idx, t, res]
    affine      \* the Augmenter's affine set-up: the settings given, those stored, aug_stack

pathVars == <<files, dirs, call>>
videoVars == <<video, made, frame, step, stacked, media_class>>
formVars == <<items, form, form_data, edited, dialog>>
augVars == <<aug, batched_by, drawn, affine>>

-----------------------------------------------------------------------------
(* Bounds *)

MaxPathLen == 3
MaxEntries == 2
MaxFrames == 2
MaxDim == 2
MaxListLen == 2
MaxItems == 2
MaxSamples == 3
MaxBatchSize == 2
MaxDegrees == 2
MaxScale == 2

-----------------------------------------------------------------------------
(* Strings *)

Slash == "/"
MetadataYaml == "metadata.yaml"

\* All strings of at most n atoms over alphabet A.
StringsUpTo(A, n) == UNION {[1..k -> A] : k \in 0..n}

\* A Python value handed to fixup_path: a str, or some other object.
Str(s) == [type |-> "str", s |-> s]
NonStr(t) == [type |-> t, s |-> <<>>]

\* The outcome of a call: a returned value or a raised exception.
Return(v) == [exc |-> "none", val |-> v]
Raise(e) == [exc |-> e, val |-> NonStr("NoneType")]

\* Python values that are told apart by their type: numbers, booleans,
\* strings, None, pairs, lists.
PyInt(v) == [type |-> "int", v |-> v]
PyFloat(v) == [type |-> "float", v |-> v]
PyBool(v) == [type |-> "bool", v |-> v]
PyStr(v) == [type |-> "str", v |-> v]
PyNone == [type |-> "NoneType", v |-> <<>>]
PyTuple(a, b) == [type |-> "tuple", v |-> <<a, b>>]
PyList(l) == [type |-> "list", v |-> l]

\* str.rfind('/') + 1: the index (0-based) just after the last separator, 0 when there is none.
RECURSIVE rfind_sep(_, _)
rfind_sep(p, i) ==
    IF i = 0 THEN 0
    ELSE IF p[i] = Slash THEN i
    ELSE rfind_sep(p, i - 1)

\* str.rstrip('/')
RECURSIVE rstrip_sep(_)
rstrip_sep(p) ==
    IF p # <<>> /\ p[Len(p)] = Slash THEN rstrip_sep(SubSeq(p, 1, Len(p) - 1)) ELSE p

\* posixpath.basename
basename(p) == SubSeq(p, rfind_sep(p, Len(p)) + 1, Len(p))

\* posixpath.split(p)[0]
split_head(p) ==
    LET head == SubSeq(p, 1, rfind_sep(p, Len(p)))
    IN  IF head # <<>> /\ (\E i \in 1..Len(head) : head[i] # Slash)
        THEN rstrip_sep(head)
        ELSE head

\* str.endswith('metadata.yaml')
ends_with_metadata(p) == p # <<>> /\ p[Len(p)] = MetadataYaml

\* 'metadata.yaml' in str
contains_metadata(p) == \E i \in 1..Len(p) : p[i] = MetadataYaml

-----------------------------------------------------------------------------
(* The filesystem: os.path.exists / isfile / isdir *)

\* The current working directory.
Cwd == << <<"w">> >>

\* The names of a path string: the runs of atoms between separators.
RECURSIVE Components(_)
Components(p) ==
    IF p = <<>> THEN <<>>
    ELSE IF p[1] = Slash THEN Components(Tail(p))
    ELSE LET n == CHOOSE k \in 1..Len(p) :
                     /\ \A i \in 1..k : p[i] # Slash
                     /\ (k = Len(p) \/ p[k + 1] = Slash)
         IN  <<SubSeq(p, 1, n)>> \o Components(SubSeq(p, n + 1, Len(p)))

\* The absolute path a string names.
Resolve(p) == (IF p[1] = Slash THEN <<>> ELSE Cwd) \o Components(p)

isdir(fs_files, fs_dirs, p) == p # <<>> /\ Resolve(p) \in fs_dirs

isfile(fs_files, fs_dirs, p) ==
    p # <<>> /\ p[Len(p)] # Slash /\ Resolve(p) \in fs_files

exists(fs_files, fs_dirs, p) == isdir(fs_files, fs_dirs, p) \/ isfile(fs_files, fs_dirs, p)

\* The path leads through a regular file: opening it fails with ENOTDIR,
\* where a missing name fails with ENOENT.
through_file(fs_files, fs_dirs, p) ==
    LET names == Resolve(p)
    IN  \E k \in 1..(Len(names) - 1) : SubSeq(names, 1, k) \in fs_files

-----------------------------------------------------------------------------
(* Video.fixup_path *)

\* A slip: the basename is looked up before the path as given.
fixup_path_basename_first(fs_files, fs_dirs, path) ==
    IF path.type # "str" THEN Return(path)
    ELSE IF exists(fs_files, fs_dirs, basename(path.s)) THEN Return(Str(basename(path.s)))
    ELSE IF exists(fs_files, fs_dirs, path.s) THEN Return(path)
    ELSE IF ends_with_metadata(path.s)
            /\ exists(fs_files, fs_dirs, basename(split_head(path.s)))
    THEN Return(Str(basename(split_head(path.s))))
    ELSE Raise("FileNotFoundError")

\* A slip: the parent directory name is returned without checking it exists.
fixup_path_unchecked_dir(fs_files, fs_dirs, path) ==
    IF path.type # "str" THEN Return(path)
    ELSE IF exists(fs_files, fs_dirs, path.s) THEN Return(path)
    ELSE IF exists(fs_files, fs_dirs, basename(path.s)) THEN Return(Str(basename(path.s)))
    ELSE IF ends_with_metadata(path.s)
    THEN Return(Str(basename(split_head(path.s))))
    ELSE Raise("FileNotFoundError")

\* A slip: the directory is stripped from a path that exists as given.
fixup_path_strips_found(fs_files, fs_dirs, path) ==
    IF path.type # "str" THEN Return(path)
    ELSE IF exists(fs_files, fs_dirs, path.s) \/ exists(fs_files, fs_dirs, basename(path.s))
    THEN Return(Str(basename(path.s)))
    ELSE IF ends_with_metadata(path.s)
            /\ exists(fs_files, fs_dirs, basename(split_head(path.s)))
    THEN Return(Str(basename(split_head(path.s))))
    ELSE Raise("FileNotFoundError")

fixup_path(fs_files, fs_dirs, path) ==
    IF path.type # "str" THEN Return(path)
    ELSE IF exists(fs_files, fs_dirs, path.s) THEN Return(path)
    ELSE IF exists(fs_files, fs_dirs, basename(path.s)) THEN Return(Str(basename(path.s)))
    ELSE IF ends_with_metadata(path.s)
            /\ exists(fs_files, fs_dirs, basename(split_head(path.s)))
    THEN Return(Str(basename(split_head(path.s))))
    ELSE Raise("FileNotFoundError")

\* The strings fixup_path hands to os.path.exists, in the order of the calls.
fixup_path_lookups(fs_files, fs_dirs, path) ==
    IF path.type # "str" THEN <<>>
    ELSE IF exists(fs_files, fs_dirs, path.s) THEN <<path.s>>
    ELSE IF exists(fs_files, fs_dirs, basename(path.s)) THEN <<path.s, basename(path.s)>>
    ELSE IF ends_with_metadata(path.s)
    THEN <<path.s, basename(path.s), basename(split_head(path.s))>>
    ELSE <<path.s, basename(path.s)>>

-----------------------------------------------------------------------------
(* More string operations: str.lower, str.endswith, os.path.join, os.path.abspath *)

\* str.lower, atom by atom.
LowerAtom(a) ==
    CASE a = ".H5" -> ".h5"
      [] a = ".NPY" -> ".npy"
      [] OTHER -> a

\* Whether the text of atom a ends with the literal suf.
AtomEndsWith(a, suf) ==
    CASE suf = "h5" -> a \in {"h5", ".h5"}
      [] suf = "hdf5" -> a \in {".hdf5"}
      [] suf = "npy" -> a \in {".npy"}
      [] suf = "mp4" -> a \in {".mp4"}
      [] suf = "avi" -> a \in {".avi"}
      [] OTHER -> FALSE

\* str.endswith(tuple of suffixes)
endswith(s, sufs) == s # <<>> /\ \E suf \in sufs : AtomEndsWith(s[Len(s)], suf)

\* str.lower().endswith(tuple of suffixes)
lower_endswith(s, sufs) ==
    s # <<>> /\ \E suf \in sufs : AtomEndsWith(LowerAtom(s[Len(s)]), suf)

\* os.path.join(a, b) for a relative b
join(a, b) ==
    IF a = <<>> THEN b
    ELSE IF a[Len(a)] = Slash THEN a \o b
    ELSE a \o <<Slash>> \o b

RECURSIVE JoinNames(_)
JoinNames(names) ==
    IF names = <<>> THEN <<>>
    ELSE <<Slash>> \o Head(names) \o JoinNames(Tail(names))

\* os.path.abspath: normpath(join(cwd, p)); exactly two leading separators are kept.
abspath(p) ==
    LET names == IF p = <<>> THEN Cwd ELSE Resolve(p)
        two == Len(p) >= 2 /\ p[1] = Slash /\ p[2] = Slash /\ (Len(p) = 2 \/ p[3] # Slash)
        body == IF names = <<>> THEN <<Slash>> ELSE JoinNames(names)
    IN  IF two THEN <<Slash>> \o body ELSE body

-----------------------------------------------------------------------------
(* The backends' constructors, as far as the filesystem decides them.  A    *)
(* file that exists is taken to hold what its reader expects.               *)

InputFormats == {"channels_first", "channels_last"}

\* An open h5py.File, known by the name it was opened under, and an
\* h5py.Dataset, known by its name in its file and by that file.
H5File(filename) == [type |-> "h5.File", s |-> filename]
H5Dataset(name, file) == [type |-> "h5.Dataset", v |-> name, file |-> file]

\* HDF5Video.__init__: the input_format validator, then __attrs_post_init__.
\* An h5.File given as filename is kept as the file and gives its name; a
\* str is opened; anything else leaves no file.  An h5.Dataset given as
\* dataset gives the file and its name; a str is looked up in the file, and
\* indexing no file raises TypeError.  file_h5 is the private file.
HDF5Video(fs_files, fs_dirs, filename, dataset, input_format, convert_range) ==
    LET opened == IF filename.type = "h5.File" THEN filename
                  ELSE IF filename.type = "str" THEN H5File(filename.s)
                  ELSE NonStr("NoneType")
    IN  IF input_format \notin InputFormats THEN Raise("ValueError")
        ELSE IF filename.type = "str" /\ ~isfile(fs_files, fs_dirs, filename.s)
        THEN Raise("FileNotFoundError")
        ELSE IF dataset.type = "str" /\ opened.type = "NoneType" THEN Raise("TypeError")
        ELSE Return([kind |-> "HDF5Video",
                     filename |-> IF filename.type = "h5.File" THEN Str(filename.s)
                                  ELSE filename,
                     dataset |-> IF dataset.type = "h5.Dataset" THEN PyStr(dataset.v)
                                 ELSE dataset,
                     input_format |-> input_format, convert_range |-> convert_range,
                     file_h5 |-> IF dataset.type = "h5.Dataset" THEN dataset.file
                                 ELSE opened])

\* MediaVideo.__init__ with the grayscale flag it ends with; os.path.isfile
\* of a value that is no path raises TypeError.
MediaVideo(fs_files, fs_dirs, filename, grayscale, bgr) ==
    IF filename.type # "str" THEN Raise("TypeError")
    ELSE IF ~isfile(fs_files, fs_dirs, filename.s) THEN Raise("FileNotFoundError")
    ELSE Return([kind |-> "MediaVideo", filename |-> filename,
                 grayscale |-> grayscale, bgr |-> bgr])

\* An array of frames, known by its contents: two arrays are equal when
\* their contents are the same (all arrays here have one shape).
Array(contents) == [type |-> "ndarray", s |-> <<>>, v |-> contents]

\* The file name a NumpyVideo built on an array takes.
RawVideoData == <<"Raw Video Data">>

\* NumpyVideo.__init__: an array given as filename is kept as the data and
\* the file name becomes "Raw Video Data"; a str is loaded with np.load,
\* loaded being the array the file holds; anything else leaves no data.
\* data is the private array.
NumpyVideo(fs_files, fs_dirs, filename, loaded) ==
    IF filename.type = "ndarray"
    THEN Return([kind |-> "NumpyVideo", filename |-> Str(RawVideoData), data |-> filename])
    ELSE IF filename.type = "str"
    THEN IF ~isfile(fs_files, fs_dirs, filename.s) THEN Raise("FileNotFoundError")
         ELSE Return([kind |-> "NumpyVideo", filename |-> filename, data |-> loaded])
    ELSE Return([kind |-> "NumpyVideo", filename |-> filename,
                 data |-> NonStr("NoneType")])

\* The file name an ImgStoreVideo keeps.
imgstore_filename(filename) ==
    abspath(IF contains_metadata(filename) THEN filename
            ELSE join(filename, <<MetadataYaml>>))

\* ImgStoreVideo.__init__: the name is completed and made absolute, then the
\* store is opened (imgstore.new_for_filename reads the metadata file).
ImgStoreVideo(fs_files, fs_dirs, filename, index_by_original) ==
    LET f == imgstore_filename(filename.s)
    IN  IF filename.type # "str" THEN Raise("TypeError")
        ELSE IF basename(f) # <<MetadataYaml>> THEN Raise("ValueError")
        ELSE IF through_file(fs_files, fs_dirs, f) THEN Raise("NotADirectoryError")
        ELSE IF ~exists(fs_files, fs_dirs, f) THEN Raise("FileNotFoundError")
        ELSE IF ~isfile(fs_files, fs_dirs, f) THEN Raise("IsADirectoryError")
        ELSE Return([kind |-> "ImgStoreVideo", filename |-> Str(f),
                     index_by_original |-> index_by_original])

\* Video(backend=...)
Video(backend_) == IF backend_.exc = "none" THEN Return([backend |-> backend_.val]) ELSE backend_

\* The if/elif chain of Video.from_filename on the repaired name.
detect_backend(fs_files, fs_dirs, name) ==
    IF lower_endswith(name, {"h5", "hdf5"}) THEN "HDF5Video"
    ELSE IF endswith(name, {"npy"}) THEN "NumpyVideo"
    ELSE IF lower_endswith(name, {"mp4", "avi"}) THEN "MediaVideo"
    ELSE IF isdir(fs_files, fs_dirs, name) \/ contains_metadata(name) THEN "ImgStoreVideo"
    ELSE "ValueError"

\* cls(backend=...) for the detected backend, with the constructors' defaults.
make_detected(fs_files, fs_dirs, name, first_frame_gray, loaded) ==
    LET kind == detect_backend(fs_files, fs_dirs, name)
    IN  CASE kind = "HDF5Video" ->
               Video(HDF5Video(fs_files, fs_dirs, Str(name), PyNone, "channels_last", TRUE))
          [] kind = "NumpyVideo" -> Video(NumpyVideo(fs_files, fs_dirs, Str(name), loaded))
          [] kind = "MediaVideo" ->
               Video(MediaVideo(fs_files, fs_dirs, Str(name), first_frame_gray, TRUE))
          [] kind = "ImgStoreVideo" -> Video(ImgStoreVideo(fs_files, fs_dirs, Str(name), TRUE))
          [] OTHER -> Raise("ValueError")

\* A slip: the backend is detected on the name as given, before the path is looked for.
from_filename_detect_first(fs_files, fs_dirs, filename, first_frame_gray, loaded) ==
    IF detect_backend(fs_files, fs_dirs, filename) = "ValueError" THEN Raise("ValueError")
    ELSE LET fixed == fixup_path(fs_files, fs_dirs, Str(filename))
         IN  IF fixed.exc # "none" THEN fixed
             ELSE make_detected(fs_files, fs_dirs, fixed.val.s, first_frame_gray, loaded)

\* Video.from_filename; first_frame_gray is what the media file's first frame
\* shows when the grayscale flag is left to be detected, and loaded the array
\* an array file holds.
from_filename(fs_files, fs_dirs, filename, first_frame_gray, loaded) ==
    LET fixed == fixup_path(fs_files, fs_dirs, Str(filename))
    IN  IF fixed.exc # "none" THEN fixed
        ELSE make_detected(fs_files, fs_dirs, fixed.val.s, first_frame_gray, loaded)

-----------------------------------------------------------------------------
(* Video.cattr: unstructure, and structure with the path-repair hook *)

BackendClasses == {"HDF5Video", "MediaVideo", "NumpyVideo", "ImgStoreVideo"}

\* attr.fields(cl): the attributes of each backend class.
Fields(cl) ==
    CASE cl = "HDF5Video" -> {"filename", "dataset", "input_format", "convert_range"}
      [] cl = "MediaVideo" -> {"filename", "grayscale", "bgr"}
      [] cl = "NumpyVideo" -> {"filename"}
      [] cl = "ImgStoreVideo" -> {"filename", "index_by_original"}

\* The classes of the Union, most attributes first (cattr's disambiguation order).
ClassesBySize == <<"HDF5Video", "MediaVideo", "ImgStoreVideo", "NumpyVideo">>

\* The attributes of a class that no later class of the order has.
UniqueFields(i) ==
    Fields(ClassesBySize[i])
        \ UNION {Fields(ClassesBySize[j]) : j \in (i + 1)..Len(ClassesBySize)}

\* The one unique attribute create_uniq_field_dis_func keeps for each class
\* but the last: next(iter(uniq)) of a set of strings, whose order follows
\* the hash seed of the process, so any attribute of the set can be the one.
UniqPicks ==
    {u \in [1..(Len(ClassesBySize) - 1) -> UNION {Fields(cl) : cl \in BackendClasses}] :
        \A i \in DOMAIN u : u[i] \in UniqueFields(i)}

\* A slip: the first class, in the order, that has all the keys of the data.
dis_func_first_fitting(keys, uniq) ==
    LET hits == {i \in 1..Len(ClassesBySize) : keys \subseteq Fields(ClassesBySize[i])}
    IN  IF hits = {} THEN ClassesBySize[Len(ClassesBySize)]
        ELSE ClassesBySize[CHOOSE i \in hits : \A j \in hits : i <= j]

\* cattr's create_uniq_field_dis_func: the first class, in the order, whose
\* kept unique attribute uniq[i] is a key of the data; the last class
\* otherwise.
dis_func(keys, uniq) ==
    LET hits == {i \in 1..(Len(ClassesBySize) - 1) : uniq[i] \in keys}
    IN  IF hits = {} THEN ClassesBySize[Len(ClassesBySize)]
        ELSE ClassesBySize[CHOOSE i \in hits : \A j \in hits : i <= j]

\* Converter.unstructure on a backend: attr.asdict.
unstructure(backend) == [k \in Fields(backend.kind) |-> backend[k]]

\* The attributes the generated __init__ of a class has no default for.
Required(cl) == IF cl \in {"MediaVideo", "NumpyVideo"} THEN {"filename"} ELSE {}

\* The defaults of the attributes that have one; the default of
\* MediaVideo's grayscale is detected on the first frame of the file.
Defaults(cl, first_frame_gray) ==
    CASE cl = "HDF5Video" ->
           [filename |-> NonStr("NoneType"), dataset |-> PyNone,
            input_format |-> "channels_last", convert_range |-> TRUE]
      [] cl = "MediaVideo" -> [grayscale |-> first_frame_gray, bgr |-> TRUE]
      [] cl = "NumpyVideo" -> <<>>
      [] cl = "ImgStoreVideo" ->
           [filename |-> NonStr("NoneType"), index_by_original |-> TRUE]

\* cl(**x): a keyword that is no attribute of the class, or a missing
\* attribute that has no default, raises TypeError before anything is opened.
construct(fs_files, fs_dirs, cl, x, first_frame_gray, loaded) ==
    LET kw == [k \in Fields(cl) |-> IF k \in DOMAIN x THEN x[k]
                                    ELSE Defaults(cl, first_frame_gray)[k]]
    IN  IF ~(DOMAIN x \subseteq Fields(cl)) \/ ~(Required(cl) \subseteq DOMAIN x)
        THEN Raise("TypeError")
        ELSE CASE cl = "HDF5Video" ->
                    HDF5Video(fs_files, fs_dirs, kw.filename, kw.dataset,
                              kw.input_format, kw.convert_range)
               [] cl = "MediaVideo" ->
                    MediaVideo(fs_files, fs_dirs, kw.filename, kw.grayscale, kw.bgr)
               [] cl = "NumpyVideo" -> NumpyVideo(fs_files, fs_dirs, kw.filename, loaded)
               [] cl = "ImgStoreVideo" ->
                    ImgStoreVideo(fs_files, fs_dirs, kw.filename, kw.index_by_original)

\* The structure hook fixup_video(x, cl): the 'filename' and 'file' entries
\* are repaired, then the class is called on the dictionary.
fixup_video(fs_files, fs_dirs, x, cl, first_frame_gray, loaded) ==
    LET fixed == IF "filename" \in DOMAIN x THEN fixup_path(fs_files, fs_dirs, x.filename)
                 ELSE Return(NonStr("NoneType"))
        file == IF "file" \in DOMAIN x THEN fixup_path(fs_files, fs_dirs, x.file)
                ELSE Return(NonStr("NoneType"))
    IN  IF fixed.exc # "none" THEN fixed
        ELSE IF file.exc # "none" THEN file
        ELSE construct(fs_files, fs_dirs, cl,
                       [k \in DOMAIN x |-> IF k = "filename" THEN fixed.val
                                           ELSE IF k = "file" THEN file.val
                                           ELSE x[k]],
                       first_frame_gray, loaded)

\* Converter.structure(data, Video): the Union is resolved by dis_func, built
\* on the unique attributes uniq of this process, and the class's hook
\* builds the backend.
structure(fs_files, fs_dirs, data, first_frame_gray, loaded, uniq) ==
    Video(fixup_video(fs_files, fs_dirs, data.backend,
                      dis_func(DOMAIN data.backend, uniq), first_frame_gray, loaded))

\* Video.cattr().structure(Video.cattr().unstructure(video), Video)
round_trip(fs_files, fs_dirs, v, first_frame_gray, loaded, uniq) ==
    structure(fs_files, fs_dirs, [backend |-> unstructure(v.backend)],
              first_frame_gray, loaded, uniq)

\* The matches() methods of the backends; np.all(a == b) of two arrays of
\* one shape, or of None and None, is the equality of their contents.
matches(self, other) ==
    CASE self.kind = "HDF5Video" ->
           /\ self.filename = other.filename
           /\ self.dataset = other.dataset
           /\ self.convert_range = other.convert_range
           /\ self.input_format = other.input_format
      [] self.kind = "MediaVideo" ->
           /\ self.filename = other.filename
           /\ self.grayscale = other.grayscale
           /\ self.bgr = other.bgr
      [] self.kind = "NumpyVideo" -> self.data = other.data
      [] self.kind = "ImgStoreVideo" ->
           /\ self.filename = other.filename
           /\ self.index_by_original = other.index_by_original

-----------------------------------------------------------------------------
(* The path specification: a filesystem that changes, and calls of fixup_path *)

\* The variables of the other parts of the program, and their values when
\* those parts are not in use.
notPathVars == <<videoVars, formVars, augVars>>
NoVideo == [kind |-> "none"]
NoFrame == [idx |-> -1, res |-> Return(NonStr("NoneType"))]
NoStep == [op |-> "none", before |-> "none", pos |-> -1, calls |-> <<>>]
NoStack == [idxs |-> PyNone, res |-> Return(NonStr("NoneType"))]
\* class MediaVideo: _detect_grayscale = False
MediaVideoClass == [detect_grayscale |-> FALSE]
IdleVideo ==
    /\ video = NoVideo /\ made = [by |-> "none"]
    /\ frame = NoFrame /\ step = NoStep /\ stacked = NoStack
    /\ media_class = MediaVideoClass
NoData == [called |-> FALSE, dict |-> <<>>]
NoDialog ==
    [button |-> 0, filter |-> PyNone, chosen |-> "", emitted |-> 0, before |-> <<>>,
     open |-> FALSE]
IdleForm ==
    /\ items = <<>> /\ form = <<>> /\ form_data = NoData /\ edited = FALSE
    /\ dialog = NoDialog
NoItem == [batch_idx |-> -1, t |-> "none", res |-> Return(NonStr("NoneType"))]
NoAugmenter == Raise("unconstructed")
NoAffine ==
    [made |-> FALSE, given |-> <<>>, rotation |-> <<>>, scale |-> <<>>,
     aug_stack |-> <<>>, det |-> <<>>]
IdleAug ==
    aug = NoAugmenter /\ batched_by = "none" /\ drawn = NoItem /\ affine = NoAffine

NoCall ==
    [op |-> "none", arg |-> NonStr("NoneType"), opt |-> "none",
     res |-> Return(NonStr("NoneType"))]

PathAtoms == {Slash, "a", MetadataYaml}
PathNames == {<<"a">>, <<MetadataYaml>>}

\* The entries the filesystem may hold: under the root or under the working directory.
RelEntries(names, depth) == UNION {[1..k -> names] : k \in 1..depth}
PathEntries == RelEntries(PathNames, 2) \cup {Cwd \o e : e \in RelEntries(PathNames, 2)}

Parent(e) == SubSeq(e, 1, Len(e) - 1)
IsUnder(e, d) == Len(e) >= Len(d) /\ SubSeq(e, 1, Len(d)) = d

InitFs ==
    /\ files = {}
    /\ dirs = {<<>>, Cwd}

\* A file appears (np.save, a copied video).
MakeFile(e) ==
    /\ UNCHANGED notPathVars
    /\ call = NoCall
    /\ e \notin files \cup dirs
    /\ Parent(e) \in dirs
    /\ Cardinality(files \cup dirs) < MaxEntries + 2
    /\ files' = files \cup {e}
    /\ dirs' = dirs
    /\ call' = NoCall

\* A directory appears (a frame store's directory).
MakeDir(e) ==
    /\ UNCHANGED notPathVars
    /\ call = NoCall
    /\ e \notin files \cup dirs
    /\ Parent(e) \in dirs
    /\ Cardinality(files \cup dirs) < MaxEntries + 2
    /\ dirs' = dirs \cup {e}
    /\ files' = files
    /\ call' = NoCall

\* os.remove / shutil.rmtree
Remove(e) ==
    /\ UNCHANGED notPathVars
    /\ call = NoCall
    /\ e \in files \cup dirs
    /\ e \notin {<<>>, Cwd}
    /\ files' = {f \in files : ~IsUnder(f, e)}
    /\ dirs' = {d \in dirs : ~IsUnder(d, e)}
    /\ call' = NoCall

FixupInputs == {Str(s) : s \in StringsUpTo(PathAtoms, MaxPathLen)} \cup {NonStr("ndarray")}

CallFixupPath(path) ==
    /\ UNCHANGED notPathVars
    /\ call = NoCall
    /\ call' = [op |-> "fixup_path", arg |-> path, opt |-> "none",
                res |-> fixup_path(files, dirs, path),
                lookups |-> fixup_path_lookups(files, dirs, path)]
    /\ UNCHANGED <<files, dirs>>

\* fixup_path is called on the value the last fixup_path call returned; first
\* is the argument of that last call.
CallFixupPathAgain ==
    /\ UNCHANGED notPathVars
    /\ call.op = "fixup_path"
    /\ call.opt = "none"
    /\ call.res.exc = "none"
    /\ call' = [op |-> "fixup_path", arg |-> call.res.val, opt |-> "again",
                res |-> fixup_path(files, dirs, call.res.val),
                lookups |-> fixup_path_lookups(files, dirs, call.res.val),
                first |-> call.arg]
    /\ UNCHANGED <<files, dirs>>

\* The caller drops the result of the last call.
Forget ==
    /\ UNCHANGED notPathVars
    /\ call # NoCall
    /\ call' = NoCall
    /\ UNCHANGED <<files, dirs>>

InitPath == InitFs /\ call = NoCall /\ IdleVideo /\ IdleForm /\ IdleAug

NextPath ==
    \/ \E e \in PathEntries : MakeFile(e)
    \/ \E e \in PathEntries : MakeDir(e)
    \/ \E e \in PathEntries : Remove(e)
    \/ \E p \in FixupInputs : CallFixupPath(p)
    \/ CallFixupPathAgain
    \/ Forget

vars == <<pathVars, videoVars, formVars, augVars>>

SpecPath == InitPath /\ [][NextPath]_vars

-----------------------------------------------------------------------------
(* The backend specification: a filesystem that changes, and constructions  *)
(* of videos from file names and of backends from their arguments           *)

BackendNames ==
    {<<"a">>, <<"a", "h5">>, <<"a", ".h5">>, <<"a", ".H5">>, <<"a", ".hdf5">>, <<"a", ".npy">>,
     <<"a", ".NPY">>, <<"a", ".mp4">>, <<"a", ".avi">>, <<"a", ".txt">>, <<MetadataYaml>>}

\* The entries of the working directory, and a frame store's metadata file.
BackendEntries ==
    {Cwd \o <<n>> : n \in BackendNames} \cup {Cwd \o <<<<"a">>, <<MetadataYaml>>>>}

\* File names handed to the constructors: in the working directory, in one
\* of its directories, or absolute.
BackendInputs ==
    {pre \o n : pre \in {<<>>, <<Slash>>}, n \in BackendNames}
        \cup {<<"a", Slash>> \o n : n \in {<<MetadataYaml>>, <<"a", ".mp4">>}}

\* File names handed to the backends' own constructors.
CtorInputs == {pre \o n : pre \in {<<>>, <<Slash>>}, n \in {<<"a">>, <<"a", ".mp4">>}}

\* File names recorded in persisted videos: a video file, or a frame store.
RecordedFiles ==
    {pre \o n : pre \in {<<>>, <<Slash>>, <<"a", Slash>>}, n \in {<<"a">>, <<"a", ".mp4">>}}
RecordedStores ==
    {abspath(pre \o n) : pre \in {<<>>, <<Slash>>, <<"a", Slash>>},
                         n \in {<<MetadataYaml>>, <<"a", Slash, MetadataYaml>>}}

\* The arrays an array file can hold, and the arrays a program can hold.
LoadedArrays == {Array("zeros"), Array("ones")}

\* Values handed to the backends' constructors as filename: a name, an open
\* HDF5 file, an array, or nothing.
CtorFilenames ==
    {Str(p) : p \in CtorInputs}
        \cup {H5File(<<"a">>), Array("zeros"), NonStr("NoneType")}

\* Values handed to HDF5Video as dataset: nothing, a name, or a dataset of
\* an open file.
CtorDatasets == {PyNone, PyStr("/box"), H5Dataset("/box", H5File(<<"a">>))}

CallFromFilename(p, gray, loaded) ==
    /\ UNCHANGED notPathVars
    /\ call = NoCall
    /\ call' = [op |-> "from_filename", arg |-> Str(p), opt |-> "none",
                res |-> from_filename(files, dirs, p, gray, loaded)]
    /\ UNCHANGED <<files, dirs>>

CallHDF5Video(filename, dataset, fmt) ==
    /\ UNCHANGED notPathVars
    /\ call = NoCall
    /\ call' = [op |-> "HDF5Video", arg |-> filename, opt |-> fmt, dataset |-> dataset,
                res |-> HDF5Video(files, dirs, filename, dataset, fmt, TRUE)]
    /\ UNCHANGED <<files, dirs>>

CallMediaVideo(filename, gray) ==
    /\ UNCHANGED notPathVars
    /\ call = NoCall
    /\ call' = [op |-> "MediaVideo", arg |-> filename, opt |-> "none",
                res |-> MediaVideo(files, dirs, filename, gray, TRUE)]
    /\ UNCHANGED <<files, dirs>>

CallNumpyVideo(filename, loaded) ==
    /\ UNCHANGED notPathVars
    /\ call = NoCall
    /\ call' = [op |-> "NumpyVideo", arg |-> filename, opt |-> "none",
                res |-> NumpyVideo(files, dirs, filename, loaded)]
    /\ UNCHANGED <<files, dirs>>

NextBackend ==
    \/ \E e \in BackendEntries : MakeFile(e)
    \/ \E e \in BackendEntries : MakeDir(e)
    \/ \E e \in BackendEntries : Remove(e)
    \/ \E p \in BackendInputs, g \in BOOLEAN, l \in LoadedArrays : CallFromFilename(p, g, l)
    \/ \E f \in CtorFilenames, d \in CtorDatasets,
          fmt \in InputFormats \cup {"channels_middle"} : CallHDF5Video(f, d, fmt)
    \/ \E f \in CtorFilenames, g \in BOOLEAN : CallMediaVideo(f, g)
    \/ \E f \in CtorFilenames, l \in LoadedArrays : CallNumpyVideo(f, l)
    \/ Forget

SpecBackend == InitPath /\ [][NextBackend]_vars

-----------------------------------------------------------------------------
(* The converter specification: a filesystem that changes, and persisted    *)
(* videos read back through Video.cattr                                     *)

\* The entries of the working directory, and a frame store's metadata file.
CattrEntries ==
    {Cwd \o <<n>> : n \in {<<"a">>, <<"a", ".mp4">>, <<MetadataYaml>>, RawVideoData}}
        \cup {Cwd \o <<<<"a">>, <<MetadataYaml>>>>}

\* The backends a program may hold.  A backend built on a file name was
\* built when its file was there; a frame store's name was made absolute in
\* the working directory of that time; an array backend holds the array its
\* file held, or the array it was built on, under the name "Raw Video Data";
\* an HDF5 backend built on a dataset of an open file has no file name, and
\* one built on nothing has neither.
Originals ==
    {[kind |-> "HDF5Video", filename |-> Str(p), dataset |-> PyStr("/box"),
      input_format |-> f, convert_range |-> TRUE, file_h5 |-> H5File(p)] :
        p \in RecordedFiles, f \in InputFormats}
    \cup {HDF5Video({}, {}, NonStr("NoneType"), d, "channels_last", TRUE).val :
             d \in {PyNone, H5Dataset("/box", H5File(<<"a">>))}}
    \cup {[kind |-> "MediaVideo", filename |-> Str(p), grayscale |-> g, bgr |-> TRUE] :
             p \in RecordedFiles, g \in BOOLEAN}
    \cup {[kind |-> "NumpyVideo", filename |-> Str(p), data |-> d] :
             p \in RecordedFiles, d \in LoadedArrays}
    \cup {NumpyVideo({}, {}, d, d).val : d \in LoadedArrays}
    \cup {[kind |-> "ImgStoreVideo", filename |-> Str(p), index_by_original |-> b] :
             p \in RecordedStores, b \in BOOLEAN}

\* What the first frame of a persisted backend's file can show to the
\* detection of grayscale, and the arrays the file can hold; only a media
\* file is looked at, and only an array file loaded.
FirstFrames(backend) == IF backend.kind = "MediaVideo" THEN BOOLEAN ELSE {FALSE}
Loads(backend) ==
    IF backend.kind = "NumpyVideo" THEN LoadedArrays ELSE {Array("zeros")}

\* A persisted video is read back: unstructure, then structure, in a process
\* whose converter keeps the unique attributes uniq.
CallRoundTrip(backend, gray, loaded, uniq) ==
    /\ UNCHANGED notPathVars
    /\ call = NoCall
    /\ call' = [op |-> "round_trip", arg |-> backend, opt |-> "none", loaded |-> loaded,
                res |-> round_trip(files, dirs, [backend |-> backend], gray, loaded, uniq)]
    /\ UNCHANGED <<files, dirs>>

\* Persisted backends as a file can hold them: with a 'file' entry, or with
\* some of a class's attributes only.
PersistedNames == {<<"a">>, <<Slash, "a", ".mp4">>}
PersistedBackends ==
    {[file |-> Str(p)] : p \in PersistedNames}
    \cup {[filename |-> Str(p), file |-> Str(q)] : p, q \in PersistedNames}
    \cup {[filename |-> Str(p)] : p \in PersistedNames}
    \cup {[filename |-> Str(p), grayscale |-> TRUE] : p \in PersistedNames}
    \cup {[filename |-> Str(p), input_format |-> "channels_first"] : p \in PersistedNames}
    \cup {[filename |-> Str(p), index_by_original |-> FALSE] : p \in PersistedNames}
    \cup {[index_by_original |-> FALSE], [dataset |-> PyStr("/box")]}

\* Persisted metadata is structured as a Video.
CallStructure(x, gray, loaded, uniq) ==
    /\ UNCHANGED notPathVars
    /\ call = NoCall
    /\ call' = [op |-> "structure", arg |-> x, opt |-> "none", loaded |-> loaded,
                uniq |-> uniq,
                res |-> structure(files, dirs, [backend |-> x], gray, loaded, uniq)]
    /\ UNCHANGED <<files, dirs>>

NextCattr ==
    \/ \E e \in CattrEntries : MakeFile(e)
    \/ \E e \in CattrEntries : MakeDir(e)
    \/ \E e \in CattrEntries : Remove(e)
    \/ \E b \in Originals :
         \E g \in FirstFrames(b), l \in Loads(b), u \in UniqPicks : CallRoundTrip(b, g, l, u)
    \/ \E x \in PersistedBackends, l \in LoadedArrays, u \in UniqPicks :
         CallStructure(x, TRUE, l, u)
    \/ Forget

SpecCattr == InitPath /\ [][NextCattr]_vars

-----------------------------------------------------------------------------
(* Opened backends and their frames.  An array is its shape, the number of  *)
(* the frame of its source that it holds, the order of its channels ("bgr"  *)
(* as cv2 decodes, "rgb", "single", or "stored" as a file holds them) and   *)
(* the set of the values of its pixels, in thousandths: 500 is the value   *)
(* 0.5 and 255000 the value 255.  An array of frames has one such set for   *)
(* each frame.                                                              *)

PixelUnit == 1000
MaxPixel == 255
Le1 == {PixelUnit}
Gt1 == {MaxPixel * PixelUnit}

ndarray(shp, n, order, values) ==
    [type |-> "ndarray", shape |-> shp, id |-> n, order |-> order, values |-> values]
None == NonStr("NoneType")

\* data[idx] of an array of frames: a negative idx counts from the end,
\* IndexError outside -len..len-1.
index_frame(data, idx) ==
    LET n == IF idx < 0 THEN idx + data.shape[1] ELSE idx
    IN  IF n \in 0..(data.shape[1] - 1)
        THEN Return(ndarray(Tail(data.shape), n, "stored", data.values[n + 1]))
        ELSE Raise("IndexError")

\* np.transpose(frame, (2, 1, 0))
transpose_210(a) == [a EXCEPT !.shape = <<a.shape[3], a.shape[2], a.shape[1]>>]

\* frame[..., 0][..., None]
first_channel(a) == [a EXCEPT !.shape = <<a.shape[1], a.shape[2], 1>>, !.order = "single"]

\* frame[..., ::-1]
reverse_channels(a) ==
    [a EXCEPT !.order = CASE a.order = "bgr" -> "rgb"
                          [] a.order = "rgb" -> "bgr"
                          [] OTHER -> a.order]

\* np.max(frame)
np_max(a) == CHOOSE v \in a.values : \A w \in a.values : w <= v

\* (frame * 255).astype(int)
scale_255(a) ==
    [a EXCEPT !.values = {((v * MaxPixel) \div PixelUnit) * PixelUnit : v \in a.values}]

\* img[:, :, None]
add_channel_axis(a) == [a EXCEPT !.shape = <<a.shape[1], a.shape[2], 1>>]

\* HDF5Video after __attrs_post_init__ on a file whose dataset has the shape
\* data.shape and the values data.values; the validator of input_format
\* sets the three axis indices.
open_hdf5(data, input_format, convert_range) ==
    [kind |-> "HDF5Video", input_format |-> input_format,
     convert_range |-> convert_range,
     channel_idx |-> IF input_format = "channels_first" THEN 1 ELSE 3,
     width_idx |-> 2,
     height_idx |-> IF input_format = "channels_first" THEN 3 ELSE 1,
     dataset_h5 |-> data]

\* np.max of the whole dataset
dataset_max(data) ==
    CHOOSE v \in UNION {data.values[i] : i \in 1..Len(data.values)} :
        \A w \in UNION {data.values[i] : i \in 1..Len(data.values)} : w <= v

\* A get_frame that decides the conversion on the maximum of the dataset.
hdf5_get_frame_dataset_max(self, idx) ==
    LET read == index_frame(self.dataset_h5, idx)
        frame_ == IF self.input_format = "channels_first"
                  THEN transpose_210(read.val) ELSE read.val
    IN  IF read.exc # "none" THEN read
        ELSE Return(IF self.convert_range /\ dataset_max(self.dataset_h5) <= PixelUnit
                    THEN scale_255(frame_) ELSE frame_)

\* HDF5Video.get_frame(idx)
hdf5_get_frame(self, idx) ==
    LET read == index_frame(self.dataset_h5, idx)
        frame_ == IF self.input_format = "channels_first"
                  THEN transpose_210(read.val) ELSE read.val
    IN  IF read.exc # "none" THEN read
        ELSE Return(IF self.convert_range /\ np_max(frame_) <= PixelUnit
                    THEN scale_255(frame_) ELSE frame_)

\* cv2.VideoCapture.read at position idx of a file of file.frames frames of
\* file.height x file.width pixels, three channels each.
reader_read(file, idx) ==
    IF idx \in 0..(file.frames - 1)
    THEN Return(ndarray(<<file.height, file.width, 3>>, idx, "bgr", Gt1))
    ELSE Return(None)

\* A reader that is never repositioned.
media_seek_never(self, idx) == [self |-> self, calls |-> <<>>]

\* The head of MediaVideo.get_frame: the reader is set to idx when its
\* position is another one.  calls are the calls made on the reader.
media_seek(self, idx) ==
    IF self.pos # idx THEN [self |-> [self EXCEPT !.pos = idx], calls |-> <<"set">>]
    ELSE [self |-> self, calls |-> <<>>]

\* MediaVideo.get_frame(idx, grayscale): the frame at the reader's position
\* is read; a frame that could not be read is None, and indexing None
\* raises TypeError.
media_get_frame(self, idx, grayscale) ==
    LET read == reader_read(self.file, media_seek(self, idx).self.pos).val
        gray == IF grayscale THEN first_channel(read) ELSE read
    IN  IF read.type = "NoneType"
        THEN IF grayscale \/ self.bgr THEN Raise("TypeError") ELSE Return(None)
        ELSE Return(IF self.bgr THEN reverse_channels(gray) ELSE gray)

\* A default for grayscale that marks the class instead of the instance.
grayscale_default_on_class(cls, self) ==
    [cls |-> [cls EXCEPT !.detect_grayscale = TRUE], self |-> self, val |-> FALSE]

\* MediaVideo.__grayscale_default__: the instance gets an attribute
\* _detect_grayscale of its own, and the default is False.
grayscale_default(cls, self) ==
    [cls |-> cls, self |-> [self EXCEPT !.detect_grayscale = "true"], val |-> FALSE]

\* self._detect_grayscale: the attribute of the instance when it has one,
\* that of the class otherwise.
detect_grayscale(cls, self) ==
    IF self.detect_grayscale = "unset" THEN cls.detect_grayscale
    ELSE self.detect_grayscale = "true"

\* np.alltrue(frame[..., 0] == frame[..., -1]) of a frame of the file
channels_equal(file, frame_) == file.gray[frame_.id + 1]

\* MediaVideo(filename, grayscale, bgr) on a class with the attributes cls:
\* the generated __init__ asks for the default when no grayscale is given;
\* in __attrs_post_init__ the test frame is frame 0 read in colour, which
\* leaves the reader at position 1, and grayscale is detected on it when
\* _detect_grayscale is True.
construct_media(cls, file, grayscale, bgr) ==
    LET blank == [kind |-> "MediaVideo", file |-> file, bgr |-> bgr,
                  grayscale |-> FALSE, pos |-> 0, test_frame |-> None,
                  detect_grayscale |-> "unset"]
        init == IF grayscale = "default" THEN grayscale_default(cls, blank)
                ELSE [cls |-> cls, self |-> blank, val |-> grayscale = "true"]
        self == [init.self EXCEPT !.grayscale = init.val]
        test == media_get_frame(self, 0, FALSE).val
    IN  [cls |-> init.cls,
         self |-> [self EXCEPT !.test_frame = test, !.pos = 1,
                               !.grayscale = IF detect_grayscale(init.cls, self)
                                             THEN channels_equal(file, test)
                                             ELSE self.grayscale]]

\* The MediaVideo constructed first in a program.
open_media(file, grayscale, bgr) ==
    construct_media(MediaVideoClass, file, grayscale, bgr).self

\* NumpyVideo after __attrs_post_init__ on an array data.
open_numpy(data) ==
    [kind |-> "NumpyVideo", frame_idx |-> 0, width_idx |-> 1, height_idx |-> 2,
     channel_idx |-> 3, data |-> data]

\* A frame store on disk is the sequence of its images with their frame
\* numbers.  ImgStoreVideo.open reads the first image of the store.
open_imgstore(disk, index_by_original) ==
    [kind |-> "ImgStoreVideo", index_by_original |-> index_by_original,
     disk |-> disk, store |-> "open", img |-> disk[1].img]

\* An open() that opens the store whatever its state.
open_unguarded(self) ==
    [self |-> [self EXCEPT !.store = "open", !.img = self.disk[1].img],
     calls |-> <<"new_for_filename", "get_next_image">>]

\* ImgStoreVideo.open(): a store that is not open is opened and its first
\* image read.  calls are the calls made on the store library.
open(self) ==
    IF self.store # "open"
    THEN [self |-> [self EXCEPT !.store = "open", !.img = self.disk[1].img],
          calls |-> <<"new_for_filename", "get_next_image">>]
    ELSE [self |-> self, calls |-> <<>>]

\* ImgStoreVideo.close(): an open store is closed and dropped.
close(self) ==
    IF self.store = "open"
    THEN [self |-> [self EXCEPT !.store = "closed"], calls |-> <<"close">>]
    ELSE [self |-> self, calls |-> <<>>]

\* store.get_image(frame_number): the first image stored under that number.
get_image_by_number(disk, n) ==
    IF \E i \in 1..Len(disk) : disk[i].frame_number = n
    THEN Return(disk[CHOOSE i \in 1..Len(disk) :
                       /\ disk[i].frame_number = n
                       /\ \A j \in 1..(i - 1) : disk[j].frame_number # n].img)
    ELSE Raise("ValueError")

\* store.get_image(frame_number=None, frame_index=i)
get_image_by_index(disk, i) ==
    IF i \in 0..(Len(disk) - 1) THEN Return(disk[i + 1].img) ELSE Raise("ValueError")

\* The number of frames behind each backend: axis 0 of the dataset or the
\* array, CAP_PROP_FRAME_COUNT of the reader, frame_count of the store.
frame_count(self) ==
    CASE self.kind = "HDF5Video" -> self.dataset_h5.shape[1]
      [] self.kind = "MediaVideo" -> self.file.frames
      [] self.kind = "NumpyVideo" -> self.data.shape[self.frame_idx + 1]
      [] self.kind = "ImgStoreVideo" -> Len(self.disk)

\* The property frames of the backends.  A frame store reads it from its
\* store object, which is None once the store is closed; the image read at
\* open() stays, so channels, width and height are read from it as before.
frames(self) ==
    IF self.kind = "ImgStoreVideo" /\ self.store # "open" THEN Raise("AttributeError")
    ELSE Return(frame_count(self))

channels(self) ==
    CASE self.kind = "HDF5Video" -> self.dataset_h5.shape[self.channel_idx + 1]
      [] self.kind = "MediaVideo" ->
           IF self.grayscale THEN 1 ELSE self.test_frame.shape[3]
      [] self.kind = "NumpyVideo" -> self.data.shape[self.channel_idx + 1]
      [] self.kind = "ImgStoreVideo" ->
           IF Len(self.img.shape) < 3 THEN 1 ELSE self.img.shape[3]

width(self) ==
    CASE self.kind = "HDF5Video" -> self.dataset_h5.shape[self.width_idx + 1]
      [] self.kind = "MediaVideo" -> self.test_frame.shape[2]
      [] self.kind = "NumpyVideo" -> self.data.shape[self.width_idx + 1]
      [] self.kind = "ImgStoreVideo" -> self.img.shape[2]

height(self) ==
    CASE self.kind = "HDF5Video" -> self.dataset_h5.shape[self.height_idx + 1]
      [] self.kind = "MediaVideo" -> self.test_frame.shape[1]
      [] self.kind = "NumpyVideo" -> self.data.shape[self.height_idx + 1]
      [] self.kind = "ImgStoreVideo" -> self.img.shape[1]

\* Video.shape: (self.frames, self.height, self.width, self.channels)
shape(self) ==
    IF frames(self).exc # "none" THEN frames(self)
    ELSE Return(<<frames(self).val, height(self), width(self), channels(self)>>)

\* The get_frame methods of the backends (Video.get_frame hands the call to
\* its backend).
get_frame(self, idx) ==
    CASE self.kind = "HDF5Video" -> hdf5_get_frame(self, idx)
      [] self.kind = "MediaVideo" -> media_get_frame(self, idx, self.grayscale)
      [] self.kind = "NumpyVideo" -> index_frame(self.data, idx)
      [] self.kind = "ImgStoreVideo" ->
           LET got == IF self.index_by_original
                      THEN get_image_by_number(self.disk, idx)
                      ELSE get_image_by_index(self.disk, idx)
           IN  IF got.exc # "none" THEN got
               ELSE Return(IF Len(got.val.shape) = 2 THEN add_channel_axis(got.val)
                           ELSE got.val)

\* The backend after get_frame(idx): the media reader has moved, a closed
\* frame store has been opened.
after_get_frame(self, idx) ==
    CASE self.kind = "MediaVideo" ->
           LET sought == media_seek(self, idx).self
           IN  [sought EXCEPT !.pos = IF sought.pos \in 0..(self.file.frames - 1)
                                      THEN sought.pos + 1 ELSE sought.pos]
      [] self.kind = "ImgStoreVideo" -> open(self).self
      [] OTHER -> self

\* The calls get_frame(idx) makes on the media reader or on the store library.
get_frame_calls(self, idx) ==
    CASE self.kind = "MediaVideo" -> media_seek(self, idx).calls \o <<"read">>
      [] self.kind = "ImgStoreVideo" -> open(self).calls \o <<"get_image">>
      [] OTHER -> <<>>

\* The state of the store a backend holds, for the backends that hold one.
store_of(self) == IF self.kind = "ImgStoreVideo" THEN self.store ELSE "none"
pos_of(self) == IF self.kind = "MediaVideo" THEN self.pos ELSE -1

\* Video.num_frames, len(video): the backend's frames property.
num_frames(self) == frames(self)

\* The frame_numbers argument of to_imgstore: a list, or None.
NoList == [given |-> FALSE, list |-> <<>>]
List(l) == [given |-> TRUE, list |-> l]

\* range(n) as a list
range(n) == [i \in 1..n |-> i - 1]

\* "Delete the imgstore if it already exists": os.remove of a file,
\* shutil.rmtree of a directory and all it holds.
delete_path(fs_files, fs_dirs, path) ==
    IF exists(fs_files, fs_dirs, path)
    THEN [files |-> {f \in fs_files : ~IsUnder(f, Resolve(path))},
          dirs |-> {d \in fs_dirs : ~IsUnder(d, Resolve(path))}]
    ELSE [files |-> fs_files, dirs |-> fs_dirs]

\* imgstore.new_for_format(mode='w', basedir=path) in an existing directory:
\* the store's directory is made and its metadata file written.
new_for_format(fs_files, fs_dirs, path) ==
    [files |-> fs_files \cup {Resolve(path) \o <<<<MetadataYaml>>>>},
     dirs |-> fs_dirs \cup {Resolve(path)}]

\* The backend after get_frame was called on the first k of the frame
\* numbers nums, one after the other.
RECURSIVE after_reads(_, _, _)
after_reads(self, nums, k) ==
    IF k = 0 THEN self ELSE after_get_frame(after_reads(self, nums, k - 1), nums[k])

\* Video.to_imgstore(path, frame_numbers, index_by_original): what the call
\* returns or raises, the files and directories it leaves, the frame
\* numbers it called get_frame of the source on, and the source after
\* these calls (they move the reader of a media file).  Without a
\* list, range(self.num_frames) reads the frames property first; whatever is
\* at path is deleted; self.shape, which reads frames again, is an argument
\* of the new store; the frames are read from the source one by one and
\* added under their frame numbers, the first failed read ending the call
\* with the new store left on disk, as does the first read that returns
\* None, which store.add_image cannot write; the store is then opened as an
\* ImgStoreVideo on path.  The source's own files are elsewhere.
to_imgstore(fs_files, fs_dirs, self, path, frame_numbers, index_by_original) ==
    LET nums == IF frame_numbers.given THEN frame_numbers.list
                ELSE range(frames(self).val)
        reads == [i \in 1..Len(nums) |-> get_frame(self, nums[i])]
        failed == {i \in 1..Len(nums) :
                      reads[i].exc # "none" \/ reads[i].val.type = "NoneType"}
        first == CHOOSE i \in failed : \A j \in failed : i <= j
        disk == [i \in 1..Len(nums) |-> [img |-> reads[i].val, frame_number |-> nums[i]]]
        deleted == delete_path(fs_files, fs_dirs, path)
        created == new_for_format(deleted.files, deleted.dirs, path)
        opened == ImgStoreVideo(created.files, created.dirs, Str(path), index_by_original)
        all == after_reads(self, nums, Len(nums))
    IN  IF ~frame_numbers.given /\ frames(self).exc # "none"
        THEN [res |-> frames(self), files |-> fs_files, dirs |-> fs_dirs,
              read |-> <<>>, self |-> self]
        ELSE IF shape(self).exc # "none"
        THEN [res |-> shape(self), files |-> deleted.files, dirs |-> deleted.dirs,
              read |-> <<>>, self |-> self]
        ELSE IF failed # {}
        THEN [res |-> IF reads[first].exc # "none" THEN reads[first]
                      ELSE Raise("cv2.error"),
              files |-> created.files, dirs |-> created.dirs,
              read |-> SubSeq(nums, 1, first), self |-> after_reads(self, nums, first)]
        ELSE IF opened.exc # "none"
        THEN [res |-> opened, files |-> created.files, dirs |-> created.dirs,
              read |-> nums, self |-> all]
        ELSE [res |-> Return(open_imgstore(disk, index_by_original)),
              files |-> created.files, dirs |-> created.dirs,
              read |-> nums, self |-> all]

\* cv2.imread(filename, flags=cv2.IMREAD_COLOR): the three channels of an
\* image file, None for a name that is no readable image.  A file's name
\* stands for its contents: the image files are the files named *.png, each
\* of one pixel.
imread(fs_files, fs_dirs, filename) ==
    IF isfile(fs_files, fs_dirs, filename) /\ filename[Len(filename)] = ".png"
    THEN ndarray(<<1, 1, 3>>, 0, "bgr", Gt1)
    ELSE None

\* Video.imgstore_from_filenames(filenames, output_filename), where nothing
\* is at output_filename yet: the first image gives the shape of the store,
\* which is made before the images are read again one by one and added
\* under their positions in the list; an image that cannot be read is None,
\* which has no shape and cannot be written.  The store is then opened as an
\* ImgStoreVideo indexed by original frame number.
imgstore_from_filenames(fs_files, fs_dirs, filenames, output_filename) ==
    LET imgs == [i \in 1..Len(filenames) |-> imread(fs_files, fs_dirs, filenames[i])]
        unread == {i \in 1..Len(filenames) : imgs[i].type = "NoneType"}
        disk == [i \in 1..Len(filenames) |->
                    [img |-> [imgs[i] EXCEPT !.id = i - 1], frame_number |-> i - 1]]
        created == new_for_format(fs_files, fs_dirs, output_filename)
        opened == ImgStoreVideo(created.files, created.dirs, Str(output_filename), TRUE)
    IN  IF filenames = <<>>
        THEN [res |-> Raise("IndexError"), files |-> fs_files, dirs |-> fs_dirs]
        ELSE IF imgs[1].type = "NoneType"
        THEN [res |-> Raise("AttributeError"), files |-> fs_files, dirs |-> fs_dirs]
        ELSE IF unread # {}
        THEN [res |-> Raise("cv2.error"), files |-> created.files, dirs |-> created.dirs]
        ELSE IF opened.exc # "none"
        THEN [res |-> opened, files |-> created.files, dirs |-> created.dirs]
        ELSE [res |-> Return(open_imgstore(disk, TRUE)),
              files |-> created.files, dirs |-> created.dirs]

\* slice.indices(length) of slice(start, stop, step), each None or an int:
\* the step defaults to 1, a negative bound counts from the end, and the
\* bounds are clamped to the sequence (to -1 below for a negative step).
slice_indices(sl, length) ==
    LET step_ == IF sl.step.type = "NoneType" THEN 1 ELSE sl.step.v
        lower == IF step_ < 0 THEN -1 ELSE 0
        upper == IF step_ < 0 THEN length - 1 ELSE length
        clamp_(b) == IF b.v < 0 THEN (IF b.v + length < lower THEN lower ELSE b.v + length)
                     ELSE (IF b.v > upper THEN upper ELSE b.v)
    IN  IF step_ = 0 THEN Raise("ValueError")
        ELSE Return(<<IF sl.start.type = "NoneType"
                      THEN (IF step_ < 0 THEN upper ELSE lower) ELSE clamp_(sl.start),
                      IF sl.stop.type = "NoneType"
                      THEN (IF step_ < 0 THEN lower ELSE upper) ELSE clamp_(sl.stop),
                      step_>>)

\* range(start, stop, step) as a list
RECURSIVE range_step(_, _, _)
range_step(start, stop, step_) ==
    IF (step_ > 0 /\ start < stop) \/ (step_ < 0 /\ start > stop)
    THEN <<start>> \o range_step(start + step_, stop, step_)
    ELSE <<>>

\* [self.get_frame(idx) for idx in idxs]: the frames read so far, the backend
\* after the reads and the calls made; the first exception ends the loop.
RECURSIVE get_each(_, _)
get_each(self, idxs) ==
    IF idxs = <<>> THEN [self |-> self, exc |-> "none", list |-> <<>>, calls |-> <<>>]
    ELSE LET got == get_frame(self, Head(idxs))
             rest == get_each(after_get_frame(self, Head(idxs)), Tail(idxs))
         IN  IF got.exc # "none"
             THEN [self |-> after_get_frame(self, Head(idxs)), exc |-> got.exc,
                   list |-> <<>>, calls |-> get_frame_calls(self, Head(idxs))]
             ELSE [rest EXCEPT !.list = <<got.val>> \o rest.list,
                               !.calls = get_frame_calls(self, Head(idxs)) \o rest.calls]

\* np.stack(arrays, axis=0): ValueError for no array and for arrays of
\* different shapes (None is an array of no axis).
shape_of(a) == IF a.type = "ndarray" THEN a.shape ELSE <<>>
np_stack(arrays) ==
    IF arrays = <<>> THEN Raise("ValueError")
    ELSE IF \E i \in 1..Len(arrays) : shape_of(arrays[i]) # shape_of(arrays[1])
    THEN Raise("ValueError")
    ELSE Return([type |-> "ndarray", shape |-> <<Len(arrays)>> \o shape_of(arrays[1]),
                 frames |-> arrays])

\* Video.get_frames(idxs): a scalar is a list of one index.
as_list(idxs) == IF idxs.type = "int" THEN <<idxs.v>> ELSE idxs.v
get_frames(self, idxs) ==
    LET each == get_each(self, as_list(idxs))
    IN  [self |-> each.self, calls |-> each.calls,
         res |-> IF each.exc # "none" THEN Raise(each.exc) ELSE np_stack(each.list)]

\* Video.__getitem__(idxs): a slice is resolved against num_frames.
video_getitem(self, idxs) ==
    IF idxs.type = "slice"
    THEN IF num_frames(self).exc # "none"
         THEN [self |-> self, calls |-> <<>>, res |-> num_frames(self)]
         ELSE LET ind == slice_indices(idxs, num_frames(self).val)
              IN  IF ind.exc # "none" THEN [self |-> self, calls |-> <<>>, res |-> ind]
                  ELSE get_frames(self, PyList(range_step(ind.val[1], ind.val[2],
                                                          ind.val[3])))
    ELSE get_frames(self, idxs)

-----------------------------------------------------------------------------
(* The video specification: a Video of any backend, frames read from it,    *)
(* and its conversion to a frame store                                      *)

notVideoVars == <<pathVars, formVars, augVars>>

\* The files a Video is opened on.
Channels == {1, 3}
FrameShapes == {<<h, w, c>> : h \in 1..MaxDim, w \in 1..MaxDim, c \in Channels}
Datasets ==
    {[shape |-> <<n>> \o s, values |-> [i \in 1..n |-> v]] :
        n \in 1..MaxFrames, s \in FrameShapes, v \in {Le1, Gt1}}
Arrays == {d \in Datasets : d.values[1] = Gt1}
\* A media file: gray tells for each frame whether its first and last
\* channel are equal at every pixel.
AllMediaFiles ==
    {[frames |-> Len(g), height |-> h, width |-> w, gray |-> g] :
        h \in 1..MaxDim, w \in 1..MaxDim,
        g \in UNION {[1..n -> BOOLEAN] : n \in 1..MaxFrames}}
MediaFiles == {m \in AllMediaFiles : \A i \in 1..m.frames : m.gray[i] = m.gray[1]}
ImageShapes == FrameShapes \cup {<<h, w>> : h \in 1..MaxDim, w \in 1..MaxDim}
FrameNumbers == 0..MaxFrames
\* A store holds the frames 0..k-1 of a video, or its frames 1..k.
StoredNumbers ==
    {range(k) : k \in 1..MaxFrames} \cup {[i \in 1..k |-> i] : k \in 1..MaxFrames}
Stores ==
    {[i \in 1..Len(l) |->
        [img |-> ndarray(s, l[i], "stored", Gt1), frame_number |-> l[i]]] :
        l \in StoredNumbers, s \in ImageShapes}

Videos ==
    {open_hdf5(d, f, c) : d \in Datasets, f \in InputFormats, c \in BOOLEAN}
    \cup {open_media(m, g, b) :
            m \in MediaFiles, g \in {"default", "true", "false"}, b \in BOOLEAN}
    \cup {open_numpy(d) : d \in Arrays}
    \cup {open_imgstore(d, b) : d \in Stores, b \in BOOLEAN}

\* The frame numbers a Video has a frame for.
ValidFrameNumbers(self) ==
    IF self.kind = "ImgStoreVideo" /\ self.index_by_original
    THEN {self.disk[i].frame_number : i \in 1..Len(self.disk)}
    ELSE 0..(frame_count(self) - 1)

\* The lists of frame numbers handed to to_imgstore: None, or a list, in
\* any order, of distinct numbers the Video has a frame for.
Distinct(l) == \A i, j \in 1..Len(l) : l[i] = l[j] => i = j
FrameLists ==
    {NoList} \cup
    {List(l) : l \in {m \in UNION {[1..k -> FrameNumbers] : k \in 1..MaxListLen} :
                         Distinct(m)}}
ListsFor(self) ==
    {l \in FrameLists : \A i \in 1..Len(l.list) : l.list[i] \in ValidFrameNumbers(self)}

InitVideo ==
    /\ InitFs /\ call = NoCall
    /\ video \in Videos
    /\ made = [by |-> "constructor"]
    /\ frame = NoFrame
    /\ step = NoStep
    /\ stacked = NoStack
    /\ media_class = MediaVideoClass
    /\ IdleForm /\ IdleAug

\* video.get_frame(idx)
GetFrame(idx) ==
    /\ video.kind = "HDF5Video" => idx \in ValidFrameNumbers(video)
    /\ frame' = [idx |-> idx, res |-> get_frame(video, idx)]
    /\ video' = after_get_frame(video, idx)
    /\ step' = [op |-> "get_frame", before |-> store_of(video), pos |-> pos_of(video),
                calls |-> get_frame_calls(video, idx)]
    /\ UNCHANGED <<made, stacked, media_class, notVideoVars>>

\* video.backend.open()
Open ==
    /\ video.kind = "ImgStoreVideo"
    /\ video' = open(video).self
    /\ step' = [op |-> "open", before |-> video.store, pos |-> -1,
                calls |-> open(video).calls]
    /\ frame' = NoFrame
    /\ UNCHANGED <<made, stacked, media_class, notVideoVars>>

\* video.backend.close()
Close ==
    /\ video.kind = "ImgStoreVideo"
    /\ video' = close(video).self
    /\ step' = [op |-> "close", before |-> video.store, pos |-> -1,
                calls |-> close(video).calls]
    /\ frame' = NoFrame
    /\ UNCHANGED <<made, stacked, media_class, notVideoVars>>

\* The names a new store is written under, in the working directory.  The
\* second one holds 'metadata.yaml', which ImgStoreVideo takes for the
\* metadata file itself.  FreshPaths are the names used where the working
\* directory is empty.
StorePaths == {<<"a">>, <<MetadataYaml>>}
FreshPaths == {<<"a">>}

\* video = video.to_imgstore(path, frame_numbers, index_by_original); when
\* the call raises, the Video stays, as the get_frame calls made before the
\* failure left it, the last of them being then the last call on its backend.
ToImgstore(path, frame_numbers, index_by_original) ==
    /\ made.by = "constructor"
    /\ frame_numbers \in ListsFor(video)
    /\ \E done \in {to_imgstore(files, dirs, video, path, frame_numbers,
                                index_by_original)} :
         /\ made' = [by |-> "to_imgstore", source |-> video, path |-> path,
                     frame_numbers |-> frame_numbers,
                     index_by_original |-> index_by_original, exc |-> done.res.exc]
         /\ video' = IF done.res.exc = "none" THEN done.res.val ELSE done.self
         /\ files' = done.files
         /\ dirs' = done.dirs
         /\ LET k == Len(done.read)
                before == after_reads(video, done.read, k - 1)
            IN  IF done.res.exc = "none" THEN frame' = NoFrame /\ step' = NoStep
                ELSE IF k = 0 THEN frame' = NoFrame /\ step' = step
                ELSE /\ frame' = [idx |-> done.read[k],
                                  res |-> get_frame(before, done.read[k])]
                     /\ step' = [op |-> "get_frame", before |-> store_of(before),
                                 pos |-> pos_of(before),
                                 calls |-> get_frame_calls(before, done.read[k])]
    /\ UNCHANGED <<call, stacked, media_class, formVars, augVars>>

NextVideo ==
    \/ \E idx \in FrameNumbers : GetFrame(idx)
    \/ Open
    \/ Close
    \/ \E p \in FreshPaths, l \in FrameLists, b \in BOOLEAN : ToImgstore(p, l, b)

SpecVideo == InitVideo /\ [][NextVideo]_vars

\* HDF5 files of frames of two pixels, each frame with values of its own:
\* 0, 0.5, 1, 2, 255, 256.
PixelValues == {0, 500, 1000, 2000, 255000, 256000}
FrameValues == {{v, w} : v, w \in PixelValues}
RangeDatasets ==
    {[shape |-> <<Len(vs), 1, 2, 1>>, values |-> vs] :
        vs \in UNION {[1..n -> FrameValues] : n \in 1..MaxFrames}}

InitRange ==
    /\ InitFs /\ call = NoCall
    /\ \E d \in RangeDatasets, f \in InputFormats, c \in BOOLEAN :
         video = open_hdf5(d, f, c)
    /\ made = [by |-> "constructor"]
    /\ frame = NoFrame
    /\ step = NoStep
    /\ stacked = NoStack
    /\ media_class = MediaVideoClass
    /\ IdleForm /\ IdleAug

NextRange == \E idx \in FrameNumbers : GetFrame(idx)

SpecRange == InitRange /\ [][NextRange]_vars

\* MediaVideo objects constructed one after the other in one program.
InitMedia ==
    /\ InitFs /\ call = NoCall
    /\ video = NoVideo
    /\ made = [by |-> "none"]
    /\ frame = NoFrame
    /\ step = NoStep
    /\ stacked = NoStack
    /\ media_class = MediaVideoClass
    /\ IdleForm /\ IdleAug

\* video = MediaVideo(filename=file, bgr=bgr), or with grayscale=True / False
ConstructMedia(file, grayscale, bgr) ==
    /\ video' = construct_media(media_class, file, grayscale, bgr).self
    /\ media_class' = construct_media(media_class, file, grayscale, bgr).cls
    /\ made' = [by |-> "MediaVideo", file |-> file, grayscale |-> grayscale,
                bgr |-> bgr,
                after |-> IF made.by = "MediaVideo" THEN made.grayscale ELSE "none"]
    /\ UNCHANGED <<frame, step, stacked, notVideoVars>>

NextMedia ==
    \E m \in AllMediaFiles, g \in {"default", "true", "false"}, b \in BOOLEAN :
        ConstructMedia(m, g, b)

SpecMedia == InitMedia /\ [][NextMedia]_vars

\* Selections of frames: slices with bounds around the ends of the video,
\* lists of frame numbers, single frame numbers.
SliceBounds == {PyNone} \cup {PyInt(i) : i \in (0 - MaxFrames)..MaxFrames}
SliceSteps == {PyNone} \cup {PyInt(i) : i \in {-1, 2}}
Slices == [type : {"slice"}, start : SliceBounds, stop : SliceBounds, step : SliceSteps]
Selections ==
    Slices
    \cup {PyList(l) : l \in UNION {[1..k -> FrameNumbers] : k \in 0..MaxListLen}}
    \cup {PyInt(i) : i \in FrameNumbers}

\* The indices a selection picks on a Video, [] when they cannot be told.
indices_of(self, idxs) ==
    IF idxs.type # "slice" THEN as_list(idxs)
    ELSE IF num_frames(self).exc # "none" THEN <<>>
    ELSE LET ind == slice_indices(idxs, num_frames(self).val).val
         IN  range_step(ind[1], ind[2], ind[3])

\* Videos of one pixel a frame: a selection does not look at the frames.
ItemVideos == {v \in Videos : height(v) = 1 /\ width(v) = 1 /\ channels(v) = 1}

InitItems ==
    /\ InitFs /\ call = NoCall
    /\ video \in ItemVideos
    /\ made = [by |-> "constructor"]
    /\ frame = NoFrame
    /\ step = NoStep
    /\ stacked = NoStack
    /\ media_class = MediaVideoClass
    /\ IdleForm /\ IdleAug

\* video[idxs]
GetItems(idxs) ==
    /\ video.kind = "HDF5Video"
         => \A i \in 1..Len(indices_of(video, idxs)) :
               indices_of(video, idxs)[i] \in ValidFrameNumbers(video)
    /\ stacked' = [idxs |-> idxs, res |-> video_getitem(video, idxs).res]
    /\ video' = video_getitem(video, idxs).self
    /\ step' = [op |-> "getitem", before |-> store_of(video), pos |-> pos_of(video),
                calls |-> video_getitem(video, idxs).calls]
    /\ UNCHANGED <<made, frame, media_class, notVideoVars>>

NextItems == \E idxs \in Selections : GetItems(idxs)

SpecItems == InitItems /\ [][NextItems]_vars

\* The store specification: stores written into a working directory that
\* holds two image files and, under the name of the new store, nothing, a
\* file, or an older store; the source is a Video of one pixel a frame, or a
\* list of image files.
ImageFiles == {<<"a", ".png">>, <<"b", ".png">>}
StoreDisks ==
    {[files |-> {Cwd \o <<i>> : i \in ImageFiles} \cup f, dirs |-> {<<>>, Cwd} \cup d] :
        f \in {{}, {Cwd \o <<<<"a">>>>}, {Cwd \o <<<<MetadataYaml>>>>}}, d \in {{}}}
    \cup {[files |-> {Cwd \o <<i>> : i \in ImageFiles}
                        \cup {Cwd \o <<<<"a">>, <<MetadataYaml>>>>},
           dirs |-> {<<>>, Cwd, Cwd \o <<<<"a">>>>}]}

\* The lists of image file names: names on the disk and one that is missing.
ImageLists ==
    UNION {[1..k -> ImageFiles \cup {<<"c", ".png">>}] : k \in 0..MaxListLen}

InitStore ==
    /\ \E d \in StoreDisks : files = d.files /\ dirs = d.dirs
    /\ call = NoCall
    /\ video \in ItemVideos
    /\ made = [by |-> "constructor"]
    /\ frame = NoFrame
    /\ step = NoStep
    /\ stacked = NoStack
    /\ media_class = MediaVideoClass
    /\ IdleForm /\ IdleAug

\* video = Video.imgstore_from_filenames(filenames, output_filename) for a
\* new output_filename; when the call raises, the Video stays.
ImgstoreFromFilenames(filenames, output_filename) ==
    /\ made.by = "constructor"
    /\ ~exists(files, dirs, output_filename)
    /\ \E done \in {imgstore_from_filenames(files, dirs, filenames, output_filename)} :
         /\ made' = [by |-> "imgstore_from_filenames", filenames |-> filenames,
                     path |-> output_filename, exc |-> done.res.exc]
         /\ video' = IF done.res.exc = "none" THEN done.res.val ELSE video
         /\ files' = done.files
         /\ dirs' = done.dirs
         /\ step' = IF done.res.exc = "none" THEN NoStep ELSE step
    /\ frame' = NoFrame
    /\ UNCHANGED <<call, stacked, media_class, formVars, augVars>>

NextStore ==
    \/ \E idx \in FrameNumbers : GetFrame(idx)
    \/ Close
    \/ \E p \in StorePaths, l \in FrameLists, b \in BOOLEAN : ToImgstore(p, l, b)
    \/ \E l \in ImageLists, p \in StorePaths : ImgstoreFromFilenames(l, p)

SpecStore == InitStore /\ [][NextStore]_vars

-----------------------------------------------------------------------------
(* The form builder.  A Python value is tagged with its type; a float is    *)
(* held in thousandths.  The Qt widgets are modelled by what the form       *)
(* builder uses of them: a spin box clamps its value to its range (0 to 99  *)
(* on construction), a double spin box also rounds to its two decimals,     *)
(* a combo box makes its first item current.                                *)

SpinBoxMinimum == 0
SpinBoxMaximum == 99
DoubleSpinBoxMaximum == 99990
DoubleSpinBoxUnit == 10

clamp(v, lo, hi) == IF v < lo THEN lo ELSE IF v > hi THEN hi ELSE v

\* A value in thousandths rounded to the two decimals of a double spin box.
round_decimals(v) ==
    IF v >= 0 THEN ((v + DoubleSpinBoxUnit \div 2) \div DoubleSpinBoxUnit) * DoubleSpinBoxUnit
    ELSE 0 - (((0 - v) + DoubleSpinBoxUnit \div 2) \div DoubleSpinBoxUnit) * DoubleSpinBoxUnit

QSpinBox ==
    [class |-> "QSpinBox", objectName |-> "", minimum |-> SpinBoxMinimum,
     maximum |-> SpinBoxMaximum, value |-> 0]
QDoubleSpinBox ==
    [class |-> "QDoubleSpinBox", objectName |-> "", minimum |-> 0,
     maximum |-> DoubleSpinBoxMaximum, value |-> 0]
QCheckBox == [class |-> "QCheckBox", objectName |-> "", checked |-> FALSE]
QComboBox == [class |-> "QComboBox", objectName |-> "", items |-> <<>>, currentIndex |-> -1]
QLineEdit == [class |-> "QLineEdit", objectName |-> "", text |-> "", enabled |-> TRUE]
QLabel(text) == [class |-> "QLabel", objectName |-> "", text |-> text]
QPushButton(text) ==
    [class |-> "QPushButton", objectName |-> "", text |-> text, checked |-> FALSE,
     clicked |-> "none", x |-> 0]

setRange(w, lo, hi) ==
    LET top == IF hi < lo THEN lo ELSE hi
    IN  [w EXCEPT !.minimum = lo, !.maximum = top, !.value = clamp(w.value, lo, top)]
setValue(w, v) ==
    IF w.class = "QDoubleSpinBox"
    THEN [w EXCEPT !.value = clamp(round_decimals(v), w.minimum, w.maximum)]
    ELSE [w EXCEPT !.value = clamp(v, w.minimum, w.maximum)]
setChecked(w, b) == [w EXCEPT !.checked = b]
addItem(w, opt) ==
    [w EXCEPT !.items = Append(w.items, opt),
              !.currentIndex = IF w.currentIndex = -1 THEN 0 ELSE w.currentIndex]
setCurrentIndex(w, idx) ==
    [w EXCEPT !.currentIndex = IF idx \in 0..(Len(w.items) - 1) THEN idx ELSE -1]
setText(w, s) == [w EXCEPT !.text = s]
setDisabled(w, b) == [w EXCEPT !.enabled = ~b]
setObjectName(w, name) == [w EXCEPT !.objectName = name]

RECURSIVE addItems(_, _)
addItems(w, opts) ==
    IF opts = <<>> THEN w ELSE addItems(addItem(w, Head(opts)), Tail(opts))

\* list.index(x): the 0-based position of the first x.
index(list, x) ==
    (CHOOSE i \in 1..Len(list) : list[i] = x /\ \A j \in 1..(i - 1) : list[j] # x) - 1

\* item["type"].split("_")[0] and [-1], for the type tags in use.
type_head(t) ==
    CASE t \in {"file_open", "file_dir", "file_save"} -> "file"
      [] OTHER -> t
type_last(t) ==
    CASE t = "file_open" -> "open"
      [] t = "file_dir" -> "dir"
      [] t = "file_save" -> "save"
      [] OTHER -> t

\* The widget build_form makes for one item; item.options is the list
\* item["options"].split(",").
make_field(item) ==
    LET field ==
          CASE item.type = "double" -> setValue(QDoubleSpinBox, item.default.v)
            [] item.type = "int" ->
                 setValue(IF item.default.v > 99
                          THEN setRange(QSpinBox, 0, item.default.v * 10)
                          ELSE QSpinBox,
                          item.default.v)
            [] item.type = "bool" -> setChecked(QCheckBox, item.default.v)
            [] item.type = "list" ->
                 LET box == addItems(QComboBox, item.options)
                 IN  IF \E i \in 1..Len(item.options) : item.options[i] = item.default.v
                     THEN setCurrentIndex(box, index(item.options, item.default.v))
                     ELSE box
            [] OTHER ->
                 LET line == setText(QLineEdit, item.default.v)
                 IN  IF type_head(item.type) = "file" THEN setDisabled(line, TRUE)
                     ELSE line
    IN  setObjectName(field, item.name)

\* The button build_form adds for a file item, with the function connected
\* to its clicked signal and the field that function is bound to (x=field):
\* the widget itself, known by its place in the layout.
make_button(item, field) ==
    [QPushButton("Select " \o item.label) EXCEPT
        !.clicked = IF type_last(item.type) \in {"open", "dir"}
                    THEN type_last(item.type) ELSE "print",
        !.x = field]

\* QFormLayout.addRow(label, field): a label is made for a text that is not
\* empty.
addRow(layout, label, field) ==
    layout \o (IF label = "" THEN <<>> ELSE <<QLabel(label)>>) \o <<field>>

\* build_form(items_to_create) on an empty layout: the widgets in the order
\* of itemAt.
RECURSIVE build_form(_, _)
build_form(layout, items_to_create) ==
    IF items_to_create = <<>> THEN layout
    ELSE LET item == Head(items_to_create)
             row == addRow(layout, item.label \o ":", make_field(item))
         IN  build_form(IF type_head(item.type) = "file"
                        THEN addRow(row, "", make_button(item, Len(row))) ELSE row,
                        Tail(items_to_create))

\* item.get("filter", "Any File (*.*)")
AnyFile == "Any File (*.*)"
get_filter(item) == IF item.filter.type = "NoneType" THEN PyStr(AnyFile) ELSE item.filter

\* The function connected to a button, called on a click, when the dialog
\* returns the name chosen ("" when it is cancelled).  The name item of the
\* function body is the variable of build_form's loop, which holds the last
\* item of items_to_create once the form is built; x is the field bound when
\* the function was defined.  The outcome is the layout, the filter the
\* dialog was opened with and the number of valueChanged signals emitted.
select_file(layout, items_to_create, button, chosen) ==
    LET item == items_to_create[Len(items_to_create)]
        written == IF Len(chosen) > 0
                   THEN [layout EXCEPT ![button.x] = setText(layout[button.x], chosen)]
                   ELSE layout
    IN  CASE button.clicked = "open" ->
               [layout |-> written, filter |-> get_filter(item), emitted |-> 1]
          [] button.clicked = "dir" ->
               [layout |-> written, filter |-> PyNone, emitted |-> 1]
          [] OTHER -> [layout |-> layout, filter |-> PyNone, emitted |-> 0]

\* get_widget_value(widget)
get_widget_value(widget) ==
    CASE widget.class \in {"QCheckBox", "QPushButton"} -> PyBool(widget.checked)
      [] widget.class = "QSpinBox" -> PyInt(widget.value)
      [] widget.class = "QDoubleSpinBox" -> PyFloat(widget.value)
      [] widget.class = "QComboBox" ->
           PyStr(IF widget.currentIndex = -1 THEN ""
                ELSE widget.items[widget.currentIndex + 1])
      [] OTHER -> PyStr(widget.text)

\* A get_form_data that reports the enabled widgets only.
get_form_data_enabled_only(layout) ==
    LET kept == {i \in 1..Len(layout) :
                    /\ Len(layout[i].objectName) > 0
                    /\ layout[i].class \notin {"QLabel", "QPushButton"}
                    /\ layout[i].class = "QLineEdit" => layout[i].enabled}
        last(name) == CHOOSE i \in kept :
                        /\ layout[i].objectName = name
                        /\ \A j \in kept : layout[j].objectName = name => j <= i
    IN  [name \in {layout[i].objectName : i \in kept} |->
            get_widget_value(layout[last(name)])]

\* get_form_data(): a dict comprehension over the widgets, where a later
\* widget of the same name replaces an earlier one.
get_form_data(layout) ==
    LET kept == {i \in 1..Len(layout) :
                    /\ Len(layout[i].objectName) > 0
                    /\ layout[i].class \notin {"QLabel", "QPushButton"}}
        last(name) == CHOOSE i \in kept :
                        /\ layout[i].objectName = name
                        /\ \A j \in kept : layout[j].objectName = name => j <= i
    IN  [name \in {layout[i].objectName : i \in kept} |->
            get_widget_value(layout[last(name)])]

-----------------------------------------------------------------------------
(* The form specification: a form built from a list of items, edited by the *)
(* user and read back                                                       *)

notFormVars == <<pathVars, videoVars, augVars>>

\* The items a form is built from: the i-th item is named FieldNames[i]; an
\* item without a "filter" entry has the filter None.
FieldNames == <<"f1", "f2", "f3", "f4">>
IntDefaults == {-1, 5, 100}
FloatDefaults == {-500, 1, 250, 100000}
Options == <<"a", "b">>
ItemsNamed(name) ==
    {[name |-> name, label |-> "L", type |-> "double", default |-> PyFloat(v),
      options |-> <<>>, filter |-> PyNone] : v \in FloatDefaults}
    \cup {[name |-> name, label |-> "L", type |-> "int", default |-> PyInt(v),
           options |-> <<>>, filter |-> PyNone] : v \in IntDefaults}
    \cup {[name |-> name, label |-> "L", type |-> "bool", default |-> PyBool(v),
           options |-> <<>>, filter |-> PyNone] : v \in BOOLEAN}
    \cup {[name |-> name, label |-> "L", type |-> "list", default |-> PyStr(v),
           options |-> Options, filter |-> PyNone] : v \in {"b", "c"}}
    \cup {[name |-> name, label |-> "L", type |-> "string", default |-> PyStr(v),
           options |-> <<>>, filter |-> PyNone] : v \in {"", "a"}}
    \cup {[name |-> name, label |-> "L", type |-> t, default |-> PyStr("a"),
           options |-> <<>>, filter |-> PyNone] :
            t \in {"file_open", "file_dir", "file_save", "text"}}
    \cup {[name |-> name, label |-> "L", type |-> "file_open", default |-> PyStr(""),
           options |-> <<>>, filter |-> PyStr("Files of " \o name)]}
ItemLists ==
    UNION {{l \in [1..k -> UNION {ItemsNamed(FieldNames[i]) : i \in 1..k}] :
               \A i \in 1..k : l[i].name = FieldNames[i]} : k \in 1..MaxItems}

\* FormBuilderLayout(items_to_create)
InitForm ==
    /\ InitFs /\ call = NoCall /\ IdleVideo
    /\ items \in ItemLists
    /\ form = build_form(<<>>, items)
    /\ form_data = NoData
    /\ edited = FALSE
    /\ dialog = NoDialog
    /\ IdleAug

\* What the user, or a callback that runs while a dialog is open, can do to
\* the i-th widget: set a spin box, tick or untick a check box, pick an entry
\* of a combo box, type into an enabled line edit.
user_edit(w, n) ==
    CASE w.class = "QSpinBox" -> setValue(w, n)
      [] w.class = "QDoubleSpinBox" -> setValue(w, n * 1000)
      [] w.class = "QCheckBox" -> setChecked(w, n = 1)
      [] w.class = "QComboBox" /\ n < Len(w.items) -> setCurrentIndex(w, n)
      [] w.class = "QLineEdit" /\ w.enabled -> setText(w, IF n = 1 THEN "typed" ELSE "")
      [] OTHER -> w

UserEdit(i, n) ==
    /\ i \in 1..Len(form)
    /\ form[i].class \notin {"QLabel", "QPushButton"}
    /\ form[i].class = "QLineEdit" => form[i].enabled
    /\ form' = [form EXCEPT ![i] = user_edit(form[i], n)]
    /\ edited' = TRUE
    /\ form_data' = NoData
    /\ UNCHANGED <<items, dialog, notFormVars>>

\* A click on the i-th widget, a button: select_file reads the filter and
\* opens the file dialog, which is modal and runs an event loop until the
\* user closes it; nothing is written and nothing emitted before.  The
\* function of a button of another type opens no dialog and ends at once.
ClickSelect(i) ==
    /\ ~dialog.open
    /\ i \in 1..Len(form)
    /\ form[i].class = "QPushButton"
    /\ dialog' = [button |-> i, chosen |-> "", before |-> form,
                  filter |-> select_file(form, items, form[i], "").filter,
                  emitted |-> 0, open |-> form[i].clicked \in {"open", "dir"}]
    /\ edited' = TRUE
    /\ form_data' = NoData
    /\ UNCHANGED <<items, form, notFormVars>>

\* The dialog is closed and returns chosen ("" when it is cancelled): the
\* rest of select_file writes the field, as the form is by then, and emits
\* valueChanged.
CloseDialog(chosen) ==
    /\ dialog.open
    /\ form' = select_file(form, items, form[dialog.button], chosen).layout
    /\ dialog' = [dialog EXCEPT
                    !.chosen = chosen, !.before = form, !.open = FALSE,
                    !.emitted = select_file(form, items, form[dialog.button],
                                            chosen).emitted]
    /\ form_data' = NoData
    /\ UNCHANGED <<items, edited, notFormVars>>

\* form_data = layout.get_form_data(), also from a callback that runs while
\* a dialog is open.
GetFormData ==
    /\ form_data' = [called |-> TRUE, dict |-> get_form_data(form)]
    /\ UNCHANGED <<items, form, edited, dialog, notFormVars>>

NextForm ==
    \/ \E i \in 1..(3 * MaxItems), n \in 0..1 : UserEdit(i, n)
    \/ \E i \in 1..(3 * MaxItems) : ClickSelect(i)
    \/ \E chosen \in {"", "chosen"} : CloseDialog(chosen)
    \/ GetFormData

SpecForm == InitForm /\ [][NextForm]_vars

-----------------------------------------------------------------------------
(* The augmenter.  A sample is its index into X; a keypoint is named by its *)
(* sample, its instance and its row in the instance's array, so that every  *)
(* point of the data set is distinct; an image or point that went through   *)
(* the augmentation carries the transform that was drawn for the batch.     *)

\* np.ceil(num_samples / batch_size) for a positive batch size
num_batches(num_samples, batch_size) == (num_samples + batch_size - 1) \div batch_size

\* A split into equal parts that leaves the remainder out.
array_split_equal(ary, sections) ==
    LET each == Len(ary) \div sections
    IN  [j \in 1..sections |-> SubSeq(ary, (j - 1) * each + 1, j * each)]

\* np.array_split(ary, sections) for sections > 0: the first len % sections
\* parts hold len // sections + 1 elements, the others len // sections.
array_split(ary, sections) ==
    LET each == Len(ary) \div sections
        extras == Len(ary) % sections
        start(j) == (j - 1) * each + (IF j - 1 < extras THEN j - 1 ELSE extras)
        size(j) == each + (IF j <= extras THEN 1 ELSE 0)
    IN  [j \in 1..sections |-> SubSeq(ary, start(j) + 1, start(j) + size(j))]

\* np.arange(n)
arange(n) == [i \in 1..n |-> i - 1]

\* The permutations of 1..n, as np.random.shuffle can draw them.
Permutations_(n) == {p \in [1..n -> 1..n] : \A i, j \in 1..n : p[i] = p[j] => i = j}
permute(seq, p) == [i \in 1..Len(seq) |-> seq[p[i]]]

\* Augmenter.shuffle(batches_only) with the permutation p drawn.
shuffle(self, batches_only, p) ==
    IF batches_only THEN [self EXCEPT !.batches = permute(self.batches, p)]
    ELSE [self EXCEPT !.batches =
            array_split(permute(arange(self.num_samples), p),
                        num_batches(self.num_samples, self.batch_size))]

\* Augmenter(X, Y, points, datagen, output_names, batch_size,
\* shuffle_initially): __attrs_post_init__ up to the initial shuffle, where p
\* is the permutation drawn; np.array_split raises ValueError for zero
\* sections.
Augmenter(X, Y, points, datagen, output_names, batch_size, shuffle_initially, p) ==
    LET sections == num_batches(Len(X), batch_size)
        self == [X |-> X, Y |-> Y, points |-> points, datagen |-> datagen,
                 output_names |-> output_names,
                 num_samples |-> Len(X), batch_size |-> batch_size,
                 batches |-> IF sections > 0 THEN array_split(arange(Len(X)), sections)
                             ELSE <<>>]
    IN  IF sections <= 0 THEN Raise("ValueError")
        ELSE Return(IF shuffle_initially THEN shuffle(self, FALSE, p) ELSE self)

min(a, b) == IF a <= b THEN a ELSE b
max(a, b) == IF a >= b THEN a ELSE b

\* imgaug.augmenters.Affine(rotate=..., scale=...); scale is 1.0 when not given
DefaultScale == 1
Affine(rotate, scale) == [rotate |-> rotate, scale |-> scale]

\* "Setup affine augmentation" of __attrs_post_init__: the attributes
\* rotation and scale as stored, and aug_stack.
setup_affine(rotation, scale) ==
    LET given == [rotation |-> rotation, scale |-> scale]
        empty == [made |-> TRUE, given |-> given, rotation |-> rotation,
                  scale |-> scale, aug_stack |-> <<>>, det |-> <<>>]
    IN  IF rotation.type # "NoneType"
        THEN LET rot == IF rotation.type = "tuple" THEN rotation
                        ELSE PyTuple(0 - rotation.v, rotation.v)
             IN  IF scale.type # "NoneType" /\ scale.v[1] # scale.v[2]
                 THEN LET sc == PyTuple(min(scale.v[1], scale.v[2]),
                                        max(scale.v[1], scale.v[2]))
                      IN  [empty EXCEPT !.rotation = rot, !.scale = sc,
                                        !.aug_stack = <<Affine(rot.v, sc.v)>>]
                 ELSE [empty EXCEPT !.rotation = rot,
                                    !.aug_stack = <<Affine(rot.v, <<DefaultScale, DefaultScale>>)>>]
        ELSE empty

\* self.aug.to_deterministic(): the parameters an augmenter of the stack can
\* draw, each within its range; an empty Sequential changes nothing.
drawable(stack) ==
    IF stack = <<>> THEN {[rotate |-> 0, scale |-> DefaultScale]}
    ELSE {[rotate |-> r, scale |-> sc] :
            r \in min(stack[1].rotate[1], stack[1].rotate[2])
                    ..max(stack[1].rotate[1], stack[1].rotate[2]),
            sc \in min(stack[1].scale[1], stack[1].scale[2])
                    ..max(stack[1].scale[1], stack[1].scale[2])}

\* len(augmenter)
len(self) == Len(self.batches)

\* aug_det.augment_images / augment_keypoints with the transform t drawn
augment(t, x) == IF t = "identity" THEN x ELSE [of |-> x, by |-> t]
augment_all(t, xs) == [i \in 1..Len(xs) |-> augment(t, xs[i])]

\* np.concatenate(frame): the rows of the instances' arrays in one array
RECURSIVE concatenate(_)
concatenate(arrays) ==
    IF arrays = <<>> THEN <<>> ELSE Head(arrays) \o concatenate(Tail(arrays))

\* The inner loop of __getitem__ with the offset stuck at 0.
RECURSIVE split_frame_offset_stuck(_, _, _)
split_frame_offset_stuck(frame_, point_counts, offset) ==
    IF point_counts = <<>> THEN <<>>
    ELSE <<SubSeq(frame_, offset + 1,
                  IF offset + Head(point_counts) < Len(frame_)
                  THEN offset + Head(point_counts) ELSE Len(frame_))>>
         \o split_frame_offset_stuck(frame_, Tail(point_counts), offset)

\* The inner loop of __getitem__: frame[offset : offset + point_count] for
\* each recorded point count (a slice stops at the end of the array).
RECURSIVE split_frame(_, _, _)
split_frame(frame_, point_counts, offset) ==
    IF point_counts = <<>> THEN <<>>
    ELSE <<SubSeq(frame_, offset + 1,
                  IF offset + Head(point_counts) < Len(frame_)
                  THEN offset + Head(point_counts) ELSE Len(frame_))>>
         \o split_frame(frame_, Tail(point_counts), offset + Head(point_counts))

\* A callable handed to the Augmenter as datagen.
Callable(f) == [type |-> "function", v |-> f]

\* self.datagen(split_points): len counts the frames of the batch; any other
\* generator is known by its name and by the points it was called on.
call_datagen(datagen, split_points) ==
    IF datagen.v = "len" THEN PyInt(Len(split_points))
    ELSE [type |-> "generated", by |-> datagen.v, from |-> split_points]

\* The points branch of __getitem__ for the samples idx and the transform t:
\* the value it binds to Y, which is the list of the split points, or what
\* datagen makes of that list when a datagen is given.
augment_points(self, idx, t) ==
    LET frames_in_batch == [i \in 1..Len(idx) |-> self.points.list[idx[i] + 1]]
        points_per_instance_per_frame ==
            [i \in 1..Len(idx) |->
                [j \in 1..Len(frames_in_batch[i]) |-> Len(frames_in_batch[i][j])]]
        koi_in_frame ==
            [i \in 1..Len(idx) |->
                IF Len(frames_in_batch[i]) > 0 THEN concatenate(frames_in_batch[i])
                ELSE <<>>]
        aug_points_in_frames == [i \in 1..Len(idx) |-> augment_all(t, koi_in_frame[i])]
        split_points ==
            [i \in 1..Len(idx) |->
                split_frame(aug_points_in_frames[i], points_per_instance_per_frame[i], 0)]
    IN  IF self.datagen.type # "NoneType" THEN call_datagen(self.datagen, split_points)
        ELSE List(split_points)

\* Augmenter.__getitem__(batch_idx) with the transform t drawn: (X, Y).
\* With neither Y nor points the last branch binds no Y: the return reads an
\* unbound local, and the comprehension over output_names reads it once for
\* each name, as a free variable of its own scope.
getitem(self, batch_idx, t) ==
    LET idx == self.batches[batch_idx + 1]
        X == augment_all(t, [i \in 1..Len(idx) |-> self.X[idx[i] + 1]])
        bound == self.Y.given \/ self.points.given
        Y == IF self.Y.given
             THEN List(augment_all(t, [i \in 1..Len(idx) |-> self.Y.list[idx[i] + 1]]))
             ELSE IF self.points.given THEN augment_points(self, idx, t)
             ELSE NoList
    IN  IF ~bound /\ ~self.output_names.given THEN Raise("UnboundLocalError")
        ELSE IF ~bound /\ self.output_names.list # <<>> THEN Raise("NameError")
        ELSE Return([X |-> X,
                     Y |-> IF self.output_names.given
                           THEN [type |-> "dict", keys |-> self.output_names.list,
                                 value |-> Y]
                           ELSE [type |-> "plain", keys |-> <<>>, value |-> Y]])

-----------------------------------------------------------------------------
(* The augmenter specification: an Augmenter over a small data set, its     *)
(* shuffles and the batches drawn from it                                   *)

notAugVars == <<pathVars, videoVars, formVars>>

\* The instances of a frame, by the number of points of each.
FrameStructs == <<<<>>, <<1, 2>>, <<2, 0, 1>>>>

\* The images X of n samples, and the points of the samples when the frame
\* structures are dealt from the k-th one on.
Images(n) == [s \in 1..n |-> [img |-> s - 1]]
PointsOf(n, k) ==
    [s \in 1..n |->
        LET struct == FrameStructs[((s + k) % Len(FrameStructs)) + 1]
        IN  [j \in 1..Len(struct) |->
                [r \in 1..struct[j] |-> [sample |-> s - 1, instance |-> j, row |-> r]]]]

\* The generators an Augmenter is given as datagen: len, and a generator of
\* confidence maps.
Datagens == {Callable("len"), Callable("generate_confmaps_from_points")}

\* What an Augmenter is given besides X and batch_size: Y, points, datagen
\* and output_names.
DataOf(n) ==
    {[Y |-> NoList, points |-> List(PointsOf(n, k)), datagen |-> PyNone,
      output_names |-> NoList] : k \in 0..(Len(FrameStructs) - 1)}
    \cup {[Y |-> NoList, points |-> List(PointsOf(n, 0)), datagen |-> g,
            output_names |-> NoList] : g \in Datagens}
    \cup {[Y |-> NoList, points |-> List(PointsOf(n, 0)), datagen |-> g,
            output_names |-> List(<<"confmaps">>)] :
              g \in {PyNone, Callable("generate_confmaps_from_points")}}
    \cup {[Y |-> List(Images(n)), points |-> List(PointsOf(n, 0)), datagen |-> g,
            output_names |-> NoList] : g \in {PyNone, Callable("len")}}
    \cup {[Y |-> NoList, points |-> NoList, datagen |-> g, output_names |-> NoList] :
              g \in {PyNone, Callable("len")}}
    \cup {[Y |-> NoList, points |-> NoList, datagen |-> PyNone,
            output_names |-> List(<<"confmaps">>)],
          [Y |-> NoList, points |-> NoList, datagen |-> PyNone,
            output_names |-> List(<<>>)]}

Transforms == {"identity", "rotated"}

InitAug ==
    /\ InitFs /\ call = NoCall /\ IdleVideo /\ IdleForm
    /\ \E n \in 0..MaxSamples, bs \in 1..MaxBatchSize, shuffle_initially \in BOOLEAN :
         \E d \in DataOf(n), p \in Permutations_(n) :
            aug = Augmenter(Images(n), d.Y, d.points, d.datagen, d.output_names, bs,
                            shuffle_initially, p)
    /\ batched_by = "init"
    /\ drawn = NoItem
    /\ affine = IF aug.exc = "none" THEN setup_affine(PyTuple(-180, 180), PyNone)
                ELSE NoAffine

\* augmenter.shuffle(batches_only)
Shuffle(batches_only) ==
    /\ aug.exc = "none"
    /\ \E p \in Permutations_(IF batches_only THEN Len(aug.val.batches)
                              ELSE aug.val.num_samples) :
         aug' = Return(shuffle(aug.val, batches_only, p))
    /\ batched_by' = IF batches_only THEN "shuffle_batches" ELSE "shuffle_all"
    /\ drawn' = NoItem
    /\ UNCHANGED <<affine, notAugVars>>

\* drawn = augmenter[batch_idx]
GetItem(batch_idx, t) ==
    /\ aug.exc = "none"
    /\ batch_idx \in 0..(len(aug.val) - 1)
    /\ drawn' = [batch_idx |-> batch_idx, t |-> t,
                 res |-> getitem(aug.val, batch_idx, t)]
    /\ UNCHANGED <<aug, batched_by, affine, notAugVars>>

NextAug ==
    \/ \E b \in BOOLEAN : Shuffle(b)
    \/ \E i \in 0..(MaxSamples - 1), t \in Transforms : GetItem(i, t)

SpecAug == InitAug /\ [][NextAug]_vars

\* Augmenters over one sample with every rotation and scale setting.
Rotations ==
    {PyNone} \cup {PyFloat(r) : r \in 0..MaxDegrees}
        \cup {PyTuple(a, b) : a, b \in (0 - MaxDegrees)..MaxDegrees}
Scales == {PyNone} \cup {PyTuple(a, b) : a, b \in 1..MaxScale}

InitAffine ==
    /\ InitFs /\ call = NoCall /\ IdleVideo /\ IdleForm
    /\ \E d \in DataOf(1) :
         aug = Augmenter(Images(1), d.Y, d.points, d.datagen, d.output_names, 1,
                         FALSE, <<1>>)
    /\ batched_by = "init"
    /\ drawn = NoItem
    /\ \E rotation \in Rotations, scale \in Scales :
         affine = IF aug.exc = "none" THEN setup_affine(rotation, scale) ELSE NoAffine

\* aug_det = self.aug.to_deterministic()
ToDeterministic(rotate, scale) ==
    /\ aug.exc = "none"
    /\ [rotate |-> rotate, scale |-> scale] \in drawable(affine.aug_stack)
    /\ affine' = [affine EXCEPT !.det = <<[rotate |-> rotate, scale |-> scale]>>]
    /\ UNCHANGED <<aug, batched_by, drawn, notAugVars>>

NextAffine ==
    \E r \in (0 - MaxDegrees)..MaxDegrees, sc \in 1..MaxScale : ToDeterministic(r, sc)

SpecAffine == InitAffine /\ [][NextAffine]_vars

-----------------------------------------------------------------------------
(* Claims about fixup_path *)

\* The candidates of a string path, in the order the claim gives them.
Candidates(p) ==
    <<p, basename(p)>>
        \o (IF ends_with_metadata(p) THEN <<basename(split_head(p))>> ELSE <<>>)

FirstExisting(p) ==
    LET c == Candidates(p)
        hits == {i \in 1..Len(c) : exists(files, dirs, c[i])}
    IN  IF hits = {} THEN <<>>
        ELSE <<c[CHOOSE i \in hits : \A j \in hits : i <= j]>>

FixupCalled == call.op = "fixup_path" /\ call.arg.type = "str"

\* C1: fixup_path on a string returns the first candidate that exists, in the
\* order: the path as given, its basename, and (for a path ending in
\* metadata.yaml) the name of the directory holding it.
C1_FirstCandidateWins ==
    FixupCalled =>
        \A i \in 1..Len(Candidates(call.arg.s)) :
            (/\ exists(files, dirs, Candidates(call.arg.s)[i])
             /\ \A j \in 1..(i - 1) : ~exists(files, dirs, Candidates(call.arg.s)[j]))
            => call.res = Return(Str(Candidates(call.arg.s)[i]))

\* The path as given and its basename both exist and differ: the path as given is returned.
C1_Witness ==
    /\ FixupCalled
    /\ exists(files, dirs, call.arg.s)
    /\ exists(files, dirs, basename(call.arg.s))
    /\ basename(call.arg.s) # call.arg.s
    /\ call.res = Return(call.arg)

\* C2: a returned string path exists, and FileNotFoundError is raised exactly
\* when no candidate exists.
C2_ReturnsExistingOrRaises ==
    FixupCalled =>
        /\ call.res.exc \in {"none", "FileNotFoundError"}
        /\ call.res.exc = "none" =>
              /\ call.res.val.type = "str"
              /\ exists(files, dirs, call.res.val.s)
        /\ call.res.exc = "FileNotFoundError" <=> FirstExisting(call.arg.s) = <<>>

\* A path ending in metadata.yaml whose parent directory name is not in the
\* working directory: FileNotFoundError.
C2_Witness ==
    /\ FixupCalled
    /\ ends_with_metadata(call.arg.s)
    /\ basename(split_head(call.arg.s)) # <<>>
    /\ call.res.exc = "FileNotFoundError"

-----------------------------------------------------------------------------
(* Claims about the choice of a backend and about construction failures *)

\* The name a from_filename call works on, once repaired.
Repaired == fixup_path(files, dirs, call.arg)

\* os.path.splitext gives the name one of the extensions exts.
HasExtension(name, exts) ==
    LET b == basename(name) IN Len(b) >= 2 /\ b[Len(b)] \in exts

\* The backend the claim gives a name, by its extension.
ClaimedBackend(name) ==
    IF HasExtension(name, {".h5", ".hdf5"}) THEN "HDF5Video"
    ELSE IF HasExtension(name, {".npy"}) THEN "NumpyVideo"
    ELSE IF HasExtension(name, {".mp4", ".avi"}) THEN "MediaVideo"
    ELSE IF isdir(files, dirs, name) \/ contains_metadata(name) THEN "ImgStoreVideo"
    ELSE "ValueError"

\* C3: from_filename gives the repaired name the backend of its extension
\* (.h5/.hdf5, .npy, .mp4/.avi, then directory or metadata.yaml), and a name
\* matching none of them raises ValueError.  Names whose extension has upper
\* case letters, on which the claim is silent, are left out.
C3_DispatchByExtension ==
    (/\ call.op = "from_filename"
     /\ Repaired.exc = "none"
     /\ LowerAtom(Repaired.val.s[Len(Repaired.val.s)]) = Repaired.val.s[Len(Repaired.val.s)])
    => /\ call.res.exc = "none" =>
            call.res.val.backend.kind = ClaimedBackend(Repaired.val.s)
       /\ ClaimedBackend(Repaired.val.s) = "ValueError" => call.res.exc = "ValueError"

\* A backend was constructed on a path, with a valid input_format.
DirectConstruction ==
    /\ call.arg.type = "str"
    /\ \/ call.op \in {"MediaVideo", "NumpyVideo"}
       \/ call.op = "HDF5Video" /\ call.opt \in InputFormats

\* C7 as stated: an invalid input_format raises ValueError; a path that does
\* not exist raises FileNotFoundError for the HDF5, media and array backends
\* and for from_filename, whose ValueError arises only for a path that exists.
C7_MissingPathRaises ==
    /\ (call.op = "HDF5Video" /\ call.opt \notin InputFormats) => call.res.exc = "ValueError"
    /\ (DirectConstruction /\ ~exists(files, dirs, call.arg.s))
          => call.res.exc = "FileNotFoundError"
    /\ (call.op = "from_filename" /\ ~exists(files, dirs, call.arg.s))
          => call.res.exc = "FileNotFoundError"
    /\ (call.op = "from_filename" /\ call.res.exc = "ValueError")
          => exists(files, dirs, call.arg.s)

\* C7, amended: as stated for the backends; from_filename raises
\* FileNotFoundError for a path none of fixup_path's candidates finds,
\* whatever its extension, and its ValueError arises only for a path that
\* fixup_path found.
C7_UnresolvablePathRaises ==
    /\ (call.op = "HDF5Video" /\ call.opt \notin InputFormats) => call.res.exc = "ValueError"
    /\ (DirectConstruction /\ ~exists(files, dirs, call.arg.s))
          => call.res.exc = "FileNotFoundError"
    /\ (call.op = "from_filename" /\ FirstExisting(call.arg.s) = <<>>)
          => call.res.exc = "FileNotFoundError"
    /\ (call.op = "from_filename" /\ call.res.exc = "ValueError")
          => /\ FirstExisting(call.arg.s) # <<>>
             /\ exists(files, dirs, FirstExisting(call.arg.s)[1])

\* from_filename on a missing path with an extension no backend takes: FileNotFoundError.
C7_Witness ==
    /\ call.op = "from_filename"
    /\ call.arg.s[Len(call.arg.s)] = ".txt"
    /\ FirstExisting(call.arg.s) = <<>>
    /\ call.res.exc = "FileNotFoundError"

-----------------------------------------------------------------------------
(* Claims about the round trip through Video.cattr *)

\* The file name recorded in the backend read back, what fixup_path makes of
\* it, the file the rebuilt backend is to open, and the rebuilt backend.
Recorded == call.arg.filename
Found == fixup_path(files, dirs, Recorded)
Target ==
    IF call.arg.kind = "ImgStoreVideo" THEN imgstore_filename(Found.val.s)
    ELSE Found.val.s
Rebuilt == call.res.val.backend

\* C6 as stated: for a Video of any backend kind, when one of fixup_path's
\* strategies reaches the recorded file, structuring the unstructured video
\* yields a Video whose backend has the same kind and matches() the original.
\* An array file reached is taken to hold the array the original held.
C6_RoundTripMatches ==
    (/\ call.op = "round_trip"
     /\ Recorded.type = "str"
     /\ Found.exc = "none"
     /\ call.arg.kind = "NumpyVideo" => call.loaded = call.arg.data)
    => /\ call.res.exc = "none"
       /\ Rebuilt.kind = call.arg.kind
       /\ matches(Rebuilt, call.arg)

\* What fixup_path makes of an entry of a persisted backend.
FixedEntry(k) ==
    IF k \in DOMAIN call.arg THEN fixup_path(files, dirs, call.arg[k])
    ELSE Return(NonStr("NoneType"))

\* C6, amended: the 'filename' and 'file' entries go through fixup_path
\* before the backend is rebuilt, so a name fixup_path cannot find ends the
\* call with its FileNotFoundError, and no class takes a 'file' entry.  When
\* fixup_path returns a name for the recorded one, the round trip yields a
\* Video exactly when that name (for a frame store, the metadata file it is
\* completed to) is a regular file; the backend then has the same kind, is
\* built on that name and keeps every other attribute.  A rebuilt HDF5, media
\* or frame-store backend matches() the original exactly when its name is
\* the recorded one; a rebuilt array backend holds what the file found holds
\* and matches() exactly when that is the array of the original.  An HDF5
\* backend without a file name is rebuilt, and matches(), when it names no
\* dataset, and raises TypeError when it names one.
C6_RoundTripRebuildsOnFoundName ==
    /\ call.op = "round_trip"
       => /\ Found.exc # "none" => call.res = Found
          /\ (Recorded.type = "str" /\ Found.exc = "none")
             => /\ call.res.exc = "none" <=> isfile(files, dirs, Target)
                /\ call.res.exc = "none"
                   => /\ Rebuilt.kind = call.arg.kind
                      /\ Rebuilt.filename = Str(Target)
                      /\ \A k \in Fields(call.arg.kind) \ {"filename"} :
                            Rebuilt[k] = call.arg[k]
                      /\ call.arg.kind = "NumpyVideo" => Rebuilt.data = call.loaded
                      /\ matches(Rebuilt, call.arg)
                            <=> IF call.arg.kind = "NumpyVideo"
                                THEN call.loaded = call.arg.data
                                ELSE Str(Target) = Recorded
          /\ Recorded.type # "str"
             => IF call.arg.dataset.type = "NoneType"
                THEN /\ call.res.exc = "none"
                     /\ Rebuilt.kind = call.arg.kind
                     /\ matches(Rebuilt, call.arg)
                ELSE call.res.exc = "TypeError"
    /\ call.op = "structure"
       => /\ FixedEntry("filename").exc # "none" => call.res = FixedEntry("filename")
          /\ (FixedEntry("filename").exc = "none" /\ FixedEntry("file").exc # "none")
             => call.res = FixedEntry("file")
          /\ (/\ "file" \in DOMAIN call.arg
              /\ FixedEntry("filename").exc = "none"
              /\ FixedEntry("file").exc = "none")
             => call.res.exc = "TypeError"

\* A frame store found through its directory name: same kind, another file name.
C6_Witness ==
    /\ call.op = "round_trip"
    /\ call.res.exc = "none"
    /\ call.arg.kind = "ImgStoreVideo"
    /\ Rebuilt.kind = "ImgStoreVideo"
    /\ ~exists(files, dirs, Recorded.s)
    /\ Found.val.s = basename(split_head(Recorded.s))
    /\ ~matches(Rebuilt, call.arg)

-----------------------------------------------------------------------------
(* Claims about frames and their shapes *)

\* A get_frame call with a valid frame number has been made on the Video.
FrameRead == frame.idx \in ValidFrameNumbers(video)

\* C4: for every backend kind and every valid frame index, the array that
\* get_frame returns has the shape (height, width, channels) of the values
\* the backend reports, so that Video.shape is the shape of the stack of all
\* the frames.
C4_FrameShapeIsReportedShape ==
    FrameRead
    => /\ frame.res.exc = "none"
       /\ frame.res.val.shape = <<height(video), width(video), channels(video)>>
       /\ shape(video) = Return(<<frame_count(video)>> \o frame.res.val.shape)

-----------------------------------------------------------------------------
(* Claims about to_imgstore *)

\* The frame numbers a to_imgstore call was to store.
ListedNumbers ==
    IF made.frame_numbers.given THEN made.frame_numbers.list
    ELSE range(frame_count(made.source))

\* C10: to_imgstore returns a Video over a new store that holds exactly the
\* listed frames of the source (all of 0..num_frames-1 without a list), each
\* under its original frame number; read by original number the result gives
\* the frame stored for n for every listed n, read by position it gives the
\* frame stored for the i-th listed number.
C10_StoreHoldsListedFrames ==
    made.by = "to_imgstore"
    => /\ made.exc = "none"
       /\ video.kind = "ImgStoreVideo"
       /\ video.index_by_original = made.index_by_original
       /\ Len(video.disk) = Len(ListedNumbers)
       /\ \A i \in 1..Len(ListedNumbers) :
            /\ video.disk[i].frame_number = ListedNumbers[i]
            /\ video.disk[i].img = get_frame(made.source, ListedNumbers[i]).val
       /\ (frame.idx >= 0 /\ made.index_by_original
             /\ \E i \in 1..Len(ListedNumbers) : ListedNumbers[i] = frame.idx)
          => frame.res = get_frame(made.source, frame.idx)
       /\ (frame.idx >= 0 /\ ~made.index_by_original /\ frame.idx < Len(ListedNumbers))
          => frame.res = get_frame(made.source, ListedNumbers[frame.idx + 1])

-----------------------------------------------------------------------------
(* Claims about the form builder *)

\* C5: for a form built from items with distinct names, get_form_data()
\* called with no user interaction returns for every item exactly its
\* declared default, for each type and every default of that type.
C5_DefaultsReadBack ==
    (form_data.called /\ ~edited)
    => \A i \in 1..Len(items) :
         /\ items[i].name \in DOMAIN form_data.dict
         /\ form_data.dict[items[i].name] = items[i].default

\* C19: for a form built from items with distinct non-empty names, the keys
\* of get_form_data() are exactly the declared names: one entry for each
\* field the user can edit, none for the row labels nor for the buttons of
\* the file items, and an item of any other type is built as a text field
\* and reported like the others.
C19_KeysAreDeclaredNames ==
    form_data.called
    => /\ DOMAIN form_data.dict = {items[i].name : i \in 1..Len(items)}
       /\ Cardinality(DOMAIN form_data.dict) = Len(items)
       /\ Cardinality({i \in 1..Len(form) :
                         form[i].class \notin {"QLabel", "QPushButton"}}) = Len(items)
       /\ \A i \in 1..Len(form) :
            form[i].class \in {"QLabel", "QPushButton"}
            => form[i].objectName \notin DOMAIN form_data.dict
       /\ \A i \in 1..Len(items) :
            items[i].type \notin {"double", "int", "bool", "list"}
            => /\ \E j \in 1..Len(form) : /\ form[j].class = "QLineEdit"
                                          /\ form[j].objectName = items[i].name
               /\ form_data.dict[items[i].name].type = "str"

\* The data of a form of a file_open item, with its button, and an item of
\* the type "text".
C19_Witness ==
    /\ form_data.called
    /\ Len(items) = 2
    /\ items[1].type = "file_open"
    /\ items[2].type = "text"
    /\ Len(form) = 5
    /\ form[3].class = "QPushButton"
    /\ DOMAIN form_data.dict = {"f1", "f2"}

\* The file items of the form, and the item of the button last clicked.
FileItems == {i \in 1..Len(items) : items[i].type \in {"file_open", "file_dir"}}
ClickedItem ==
    CHOOSE i \in 1..Len(items) : items[i].name = form[form[dialog.button].x].objectName
FieldOf(i) == CHOOSE j \in 1..Len(form) :
                 form[j].class = "QLineEdit" /\ form[j].objectName = items[i].name

\* C20: in a form with several file_open / file_dir fields, a click on the
\* select button of one field opens the dialog with the filter of that
\* field, writes a chosen non-empty path into that field only and leaves
\* every other widget as it was; when the dialog is cancelled no value
\* changes; valueChanged is emitted exactly once for the click either way.
C20_SelectWritesOwnField ==
    (/\ dialog.button > 0
     /\ ~dialog.open
     /\ Cardinality(FileItems) > 1
     /\ ClickedItem \in FileItems)
    => /\ items[ClickedItem].type = "file_open"
          => dialog.filter = get_filter(items[ClickedItem])
       /\ dialog.chosen # "" => form[FieldOf(ClickedItem)].text = dialog.chosen
       /\ \A j \in 1..Len(form) :
            (dialog.chosen = "" \/ j # FieldOf(ClickedItem)) => form[j] = dialog.before[j]
       /\ dialog.emitted = 1

-----------------------------------------------------------------------------
(* Claims about the augmenter *)

\* The samples of the batch last drawn, the points given for them and the
\* points returned.
DrawnSamples == aug.val.batches[drawn.batch_idx + 1]
GivenPoints(i) == aug.val.points.list[DrawnSamples[i] + 1]
ReturnedPoints == drawn.res.val.Y.value.list
PointsDrawn ==
    /\ aug.exc = "none"
    /\ drawn.batch_idx >= 0
    /\ aug.val.points.given
    /\ ~aug.val.Y.given

\* The value returned as Y is a list.
ReturnsList == "list" \in DOMAIN drawn.res.val.Y.value /\ drawn.res.val.Y.value.given

\* The returned list has the nesting of the input: one entry per frame in
\* batch order, per frame one array per instance in instance order, each with
\* as many points as the instance has, each point the augmented input point;
\* under the identity transform the arrays equal the input ones.
NestingKept ==
    /\ Len(ReturnedPoints) = Len(DrawnSamples)
    /\ \A i \in 1..Len(DrawnSamples) :
         /\ Len(ReturnedPoints[i]) = Len(GivenPoints(i))
         /\ \A j \in 1..Len(GivenPoints(i)) :
              /\ Len(ReturnedPoints[i][j]) = Len(GivenPoints(i)[j])
              /\ \A r \in 1..Len(GivenPoints(i)[j]) :
                   ReturnedPoints[i][j][r] = augment(drawn.t, GivenPoints(i)[j][r])
         /\ drawn.t = "identity" => ReturnedPoints[i] = GivenPoints(i)

\* C8 as stated: with points given and Y absent, the augmented points
\* returned for a batch are a list with the nesting of the input: one entry
\* per frame in batch order, per frame one array per instance in instance
\* order, each with as many points as the instance has; under the identity
\* transform the returned arrays equal the input ones.
C8_PointsKeepNesting ==
    PointsDrawn
    => /\ drawn.res.exc = "none"
       /\ ReturnsList
       /\ NestingKept

\* The nested list the claim describes, for the batch drawn.
NestedPoints ==
    [i \in 1..Len(DrawnSamples) |->
        [j \in 1..Len(GivenPoints(i)) |->
            [r \in 1..Len(GivenPoints(i)[j]) |->
                augment(drawn.t, GivenPoints(i)[j][r])]]]

\* C8, amended: with points given and Y absent, an Augmenter without datagen
\* returns the augmented points as a list with the nesting of the input, as
\* stated; an Augmenter with a datagen builds that same nested list and
\* returns what datagen makes of it, not the list.
C8_PointsKeepNestingBeforeDatagen ==
    PointsDrawn
    => /\ drawn.res.exc = "none"
       /\ aug.val.datagen.type = "NoneType" => (ReturnsList /\ NestingKept)
       /\ aug.val.datagen.type # "NoneType"
          => /\ drawn.res.val.Y.value = call_datagen(aug.val.datagen, NestedPoints)
             /\ ~ReturnsList

\* A batch was drawn from an Augmenter without datagen under the identity
\* transform that holds a frame without instances and a frame of several
\* instances, one of them without points.
C8_Witness ==
    /\ PointsDrawn
    /\ aug.val.datagen.type = "NoneType"
    /\ drawn.t = "identity"
    /\ \E i \in 1..Len(DrawnSamples) : GivenPoints(i) = <<>>
    /\ \E i \in 1..Len(DrawnSamples) :
         /\ Len(GivenPoints(i)) >= 2
         /\ \E j \in 1..Len(GivenPoints(i)) : GivenPoints(i)[j] = <<>>
         /\ ReturnedPoints[i] = GivenPoints(i)

\* The places (batch, position) where a sample stands in the batches.
PlacesOf(s) ==
    {<<j, k>> \in (1..Len(aug.val.batches)) \X (1..aug.val.num_samples) :
        k <= Len(aug.val.batches[j]) /\ aug.val.batches[j][k] = s}

\* C9: right after construction and after any shuffles, the batches are a
\* partition of the sample indices 0..num_samples-1, there are
\* ceil(num_samples / batch_size) of them, none is empty, none holds more
\* than batch_size indices, and len(augmenter) is their number.
C9_BatchesPartitionSamples ==
    aug.exc = "none"
    => /\ \A s \in 0..(aug.val.num_samples - 1) : Cardinality(PlacesOf(s)) = 1
       /\ \A j \in 1..Len(aug.val.batches) :
            /\ \A k \in 1..Len(aug.val.batches[j]) :
                 aug.val.batches[j][k] \in 0..(aug.val.num_samples - 1)
            /\ Len(aug.val.batches[j]) >= 1
            /\ Len(aug.val.batches[j]) <= aug.val.batch_size
       /\ Len(aug.val.batches) * aug.val.batch_size >= aug.val.num_samples
       /\ (Len(aug.val.batches) - 1) * aug.val.batch_size < aug.val.num_samples
       /\ len(aug.val) = Len(aug.val.batches)

\* A shuffle of the batch order has put a smaller batch before a larger one,
\* with samples out of their order.
C9_Witness ==
    /\ aug.exc = "none"
    /\ batched_by = "shuffle_batches"
    /\ Len(aug.val.batches) >= 2
    /\ Len(aug.val.batches[1]) < Len(aug.val.batches[2])
    /\ aug.val.batches[2][1] > aug.val.batches[2][2]

\* C21: fixup_path is idempotent: on a fixed filesystem and working
\* directory, when fixup_path(p) returns q for a string p, fixup_path(q)
\* returns q; an argument that is not a string is returned as it is, and no
\* path is looked up for it.
C21_FixupPathIdempotent ==
    /\ (call.op = "fixup_path" /\ call.opt = "again") => call.res = Return(call.arg)
    /\ (call.op = "fixup_path" /\ call.arg.type # "str")
       => /\ call.res = Return(call.arg)
          /\ call.lookups = <<>>

\* A path found only under its basename was repaired, and the repaired path
\* was handed to fixup_path again.
C21_Witness ==
    /\ call.op = "fixup_path"
    /\ call.opt = "again"
    /\ call.first.type = "str"
    /\ call.first # call.arg
    /\ call.res = Return(call.arg)
    /\ call.lookups = <<call.arg.s>>

-----------------------------------------------------------------------------
(* Claims about the life cycle of a frame store *)

Contains(calls, c) == \E i \in 1..Len(calls) : calls[i] = c

\* C11: a frame store is open right after construction; open() on an open
\* store and close() on a closed one do nothing, so the store is opened only
\* when it is closed and closed only when it is open; get_frame after close()
\* opens the store first, so every get_frame is served by an open store and
\* leaves it open.
C11_StoreOpenedOnlyWhenClosed ==
    video.kind = "ImgStoreVideo"
    => /\ step.op = "none" => video.store = "open"
       /\ Contains(step.calls, "new_for_filename") => step.before = "closed"
       /\ Contains(step.calls, "close") => step.before = "open"
       /\ (step.op = "open" /\ step.before = "open") => step.calls = <<>>
       /\ (step.op = "close" /\ step.before = "closed") => step.calls = <<>>
       /\ step.op = "open" => video.store = "open"
       /\ step.op = "close" => video.store = "closed"
       /\ step.op = "get_frame"
          => /\ video.store = "open"
             /\ step.calls[Len(step.calls)] = "get_image"
             /\ step.before = "closed" => step.calls[1] = "new_for_filename"
             /\ step.before = "open" => step.calls = <<"get_image">>

\* A frame was read from a store that had been closed.
C11_Witness ==
    /\ video.kind = "ImgStoreVideo"
    /\ step.op = "get_frame"
    /\ step.before = "closed"
    /\ step.calls = <<"new_for_filename", "get_next_image", "get_image">>
    /\ frame.res.exc = "none"
    /\ video.store = "open"

-----------------------------------------------------------------------------
(* Claims about the affine set-up of the Augmenter *)

Skipped == \A i \in 1..Len(affine.aug_stack) :
              affine.aug_stack[i].scale = <<DefaultScale, DefaultScale>>

\* C12: after construction a scalar rotation r is stored as (-r, +r) and a
\* pair is kept as given; scaling is skipped when scale is None or has equal
\* bounds, and a scale with two distinct bounds is applied as the range
\* (min(scale), max(scale)) whatever the rotation setting is.
C12_AffineFollowsSettings ==
    affine.made
    => LET rotation == affine.given.rotation
           scale == affine.given.scale
       IN  /\ rotation.type = "float"
              => affine.rotation = PyTuple(0 - rotation.v, rotation.v)
           /\ rotation.type = "tuple" => affine.rotation = rotation
           /\ (scale.type = "NoneType" \/ scale.v[1] = scale.v[2]) => Skipped
           /\ (scale.type = "tuple" /\ scale.v[1] # scale.v[2])
              => /\ Len(affine.aug_stack) = 1
                 /\ affine.aug_stack[1].scale
                      = <<min(scale.v[1], scale.v[2]), max(scale.v[1], scale.v[2])>>

\* C15: after any sequence of open(), close() and get_frame() calls on a
\* constructed frame store, the frame count, the width, the height and the
\* channel count are all readable, and are the values reported right after
\* construction.
C15_PropertiesSurviveStoreCalls ==
    video.kind = "ImgStoreVideo"
    => LET constructed == open_imgstore(video.disk, video.index_by_original)
       IN  /\ num_frames(video).exc = "none"
           /\ num_frames(video).val = frames(constructed).val
           /\ width(video) = width(constructed)
           /\ height(video) = height(constructed)
           /\ channels(video) = channels(constructed)

-----------------------------------------------------------------------------
(* Claims about reading frames of a media file *)

\* C13: when the underlying read fails during a frame fetch, the failure
\* reaches the caller as a raised error, for every backend and every
\* combination of the grayscale and bgr flags: get_frame never returns
\* normally with a value that is not a frame, such as None.
C13_FailedReadRaises ==
    frame.idx >= 0 => (frame.res.exc # "none" \/ frame.res.val.type = "ndarray")

\* A get_frame call with an index in 0..frames-1 has been made on a media file.
MediaFrameRead ==
    /\ video.kind = "MediaVideo"
    /\ step.op = "get_frame"
    /\ frame.idx \in 0..(video.file.frames - 1)

\* C14: in any sequence of get_frame calls on a MediaVideo, a call
\* get_frame(idx) with idx in 0..frames-1 returns frame idx of the file
\* whatever calls preceded it: the reader is repositioned exactly when its
\* position differs from idx, and after the read its position is idx + 1, so
\* that reading consecutive indices never repositions.
C14_ReaderFollowsIndex ==
    MediaFrameRead
    => /\ frame.res.exc = "none"
       /\ frame.res.val.type = "ndarray"
       /\ frame.res.val.id = frame.idx
       /\ Contains(step.calls, "set") <=> step.pos # frame.idx
       /\ step.calls[Len(step.calls)] = "read"
       /\ video.pos = frame.idx + 1

\* After the last frame of the file was read, frame 0 was read again.
C14_Witness ==
    /\ MediaFrameRead
    /\ step.pos = video.file.frames
    /\ video.file.frames > 1
    /\ frame.idx = 0
    /\ step.calls = <<"set", "read">>
    /\ frame.res.val.id = 0
    /\ video.pos = 1

-----------------------------------------------------------------------------
(* Claims about the range conversion of the HDF5 backend *)

InRange(values) == \A v \in values : v \in 0..(MaxPixel * PixelUnit)
Truncated255(v) == ((v * MaxPixel) \div PixelUnit) * PixelUnit

\* A frame of an HDF5 file has been read.
HDF5FrameRead ==
    /\ video.kind = "HDF5Video"
    /\ frame.idx \in 0..(frame_count(video) - 1)

\* C16: HDF5Video.get_frame with convert_range true multiplies a frame by 255
\* and casts it to integer exactly when the maximum of that frame is at most
\* 1, and returns it unscaled otherwise, so that every returned value lies in
\* 0..255 whenever the stored values lie in 0..1 or in 0..255; with
\* convert_range false the values are never altered.  The decision depends on
\* the frame read only, not on the other frames of the dataset.
C16_RangeConvertedPerFrame ==
    HDF5FrameRead
    => LET stored == video.dataset_h5.values[frame.idx + 1]
           got == frame.res.val.values
       IN  /\ frame.res.exc = "none"
           /\ (video.convert_range /\ \A v \in stored : v <= PixelUnit)
              => got = {Truncated255(v) : v \in stored}
           /\ (video.convert_range /\ \E v \in stored : v > PixelUnit)
              => got = stored
           /\ (video.convert_range /\ InRange(stored)) => InRange(got)
           /\ ~video.convert_range => got = stored

\* A frame with the values 0.5 and 1 was read as 127 and 255 from a file whose
\* other frame has values above 1.
C16_Witness ==
    /\ HDF5FrameRead
    /\ video.convert_range
    /\ video.dataset_h5.values[frame.idx + 1] = {500, 1000}
    /\ \E i \in 1..frame_count(video) : \E v \in video.dataset_h5.values[i] : v > PixelUnit
    /\ frame.res.val.values = {127000, 255000}

-----------------------------------------------------------------------------
(* Claims about video[idxs] *)

\* The indices of a sequence of n elements that slice(start, stop, step)
\* selects, in the order of the slice.
Resolved(b, n, lowest, highest) ==
    LET from_end == IF b.v < 0 THEN b.v + n ELSE b.v
    IN  IF from_end < lowest THEN lowest
        ELSE IF from_end > highest THEN highest ELSE from_end
Ascending(S) ==
    CHOOSE q \in [1..Cardinality(S) -> S] :
        \A i, j \in 1..Cardinality(S) : i < j => q[i] < q[j]
Descending(S) ==
    CHOOSE q \in [1..Cardinality(S) -> S] :
        \A i, j \in 1..Cardinality(S) : i < j => q[i] > q[j]
SliceSelects(sl, n) ==
    LET by == IF sl.step.type = "NoneType" THEN 1 ELSE sl.step.v
    IN  IF by > 0
        THEN LET first == IF sl.start.type = "NoneType" THEN 0
                          ELSE Resolved(sl.start, n, 0, n)
                 end == IF sl.stop.type = "NoneType" THEN n
                        ELSE Resolved(sl.stop, n, 0, n)
             IN  Ascending({i \in 0..(n - 1) :
                              i >= first /\ i < end /\ (i - first) % by = 0})
        ELSE LET first == IF sl.start.type = "NoneType" THEN n - 1
                          ELSE Resolved(sl.start, n, -1, n - 1)
                 end == IF sl.stop.type = "NoneType" THEN -1
                        ELSE Resolved(sl.stop, n, -1, n - 1)
             IN  Descending({i \in 0..(n - 1) :
                               i <= first /\ i > end /\ (first - i) % (0 - by) = 0})

\* The indices that video[idxs] selects.
Selected ==
    IF stacked.idxs.type = "slice" THEN SliceSelects(stacked.idxs, frame_count(video))
    ELSE IF stacked.idxs.type = "int" THEN <<stacked.idxs.v>>
    ELSE stacked.idxs.v

\* video[idxs] was evaluated and the Video has a frame for every index selected.
FramesSelected ==
    /\ stacked.idxs.type # "NoneType"
    /\ \A i \in 1..Len(Selected) : Selected[i] \in ValidFrameNumbers(video)

\* C17: video[idxs] returns the stack of get_frame(i) over exactly the
\* selected indices, in order, its first dimension the number of indices
\* selected: a slice is resolved against num_frames as for a sequence of that
\* length, an iterable of indices is used as given and a scalar is a list of
\* one index; len(video), num_frames and shape[0] are the frame count of the
\* backend.
C17_SelectionIsStacked ==
    FramesSelected
    => /\ stacked.res.exc = "none"
       /\ stacked.res.val.shape[1] = Len(Selected)
       /\ Len(stacked.res.val.frames) = Len(Selected)
       /\ \A i \in 1..Len(Selected) :
             stacked.res.val.frames[i] = get_frame(video, Selected[i]).val
       /\ num_frames(video) = Return(frame_count(video))
       /\ shape(video).exc = "none"
       /\ shape(video).val[1] = frame_count(video)

-----------------------------------------------------------------------------
(* Claims about the grayscale flag of a media file *)

\* C18: a MediaVideo constructed without a grayscale argument ends with
\* grayscale true exactly when the first and last channel of frame 0 are
\* equal at every pixel; one constructed with grayscale true or false keeps
\* that value; and this holds whatever MediaVideo objects were constructed
\* before it, with or without detection.
C18_GrayscaleDetectedPerInstance ==
    made.by = "MediaVideo"
    => /\ made.grayscale = "default" => video.grayscale = made.file.gray[1]
       /\ made.grayscale = "true" => video.grayscale
       /\ made.grayscale = "false" => ~video.grayscale

\* After a MediaVideo that detected its flag, one was constructed with
\* grayscale false on a file whose frame 0 has equal channels, and kept it.
C18_Witness ==
    /\ made.by = "MediaVideo"
    /\ made.after = "default"
    /\ made.grayscale = "false"
    /\ made.file.gray[1]
    /\ ~video.grayscale

=============================================================================
